---- MODULE Spec2Model ----
(***************************************************************************)
(* Verification model of the typed-lua type algebra (src/src/type.hpp,     *)
(* src/src/type.cpp) and of the type-expression nodes of the checker       *)
(* (src/src/node.cpp).                                                     *)
(*                                                                         *)
(* A Type is a record with a "tag" field, one record shape per alternative *)
(* of Type::Types.  The overloads of is_assignable keep the source's name   *)
(* with the static types of their arguments appended.  An AssignResult is  *)
(* represented by its `yes` member; its `messages` are never read by a     *)
(* branch of the algebra and are left out.  A call that never returns      *)
(* (unbounded recursion, ending in stack exhaustion) yields Overflow for an *)
(* AssignResult and StackOverflow for a Type.                              *)
(***************************************************************************)
EXTENDS Integers, Sequences, FiniteSets, TLC

VARIABLES
    entries,    \* DeferredTypeCollection::entries
    lhs,        \* left operand handed to the operation
    rhs,        \* right operand handed to the operation
    node,       \* type-expression node (NType) handed to get_type, or NoNode
    op,         \* the operation that has been applied ("init" before any)
    yes,        \* AssignResult::yes of the last is_assignable call
    result,     \* Type returned by the last algebra operation, or the type
                \* of the last expression checked
    scopes,     \* the Scope objects alive, outermost first
    errors,     \* the std::vector<CompileError> of every check() running
    steps       \* number of statements checked so far

vars == <<entries, lhs, rhs, node, op, yes, result, scopes, errors, steps>>

----------------------------------------------------------------------------
(* Bounds *)

\* number literals carry the values 0..MaxLiteral, as integer and as float
MaxLiteral == 3

----------------------------------------------------------------------------
(* AssignResult outcomes *)

Yes == "yes"
No == "no"
Overflow == "overflow"
NotCalled == "none"

\* `for (...) { r = ...; if (r.yes) return r; } return false;`
FirstYes(rs) ==
    LET decisive == {i \in 1..Len(rs) : rs[i] # No}
    IN  IF decisive = {} THEN No
        ELSE rs[CHOOSE i \in decisive : \A j \in decisive : i <= j]

\* `for (...) { r = ...; if (!r.yes) return r; } return true;`
FirstNo(rs) ==
    LET decisive == {i \in 1..Len(rs) : rs[i] # Yes}
    IN  IF decisive = {} THEN Yes
        ELSE rs[CHOOSE i \in decisive : \A j \in decisive : i <= j]

RECURSIVE Flatten(_)
Flatten(ss) == IF ss = <<>> THEN <<>> ELSE Head(ss) \o Flatten(Tail(ss))

Min(a, b) == IF a < b THEN a ELSE b

\* `auto v = ...;` followed by the statements F that read v
With(v, F(_)) == F(v)

----------------------------------------------------------------------------
(* Type: the alternatives of Type::Types and the make_* factories *)

LuaTypes == {"NIL", "NUMBER", "STRING", "BOOLEAN", "THREAD"}

Void == [tag |-> "VOID"]

make_any == [tag |-> "ANY"]

make_luatype(lt) == [tag |-> "LUATYPE", luatype |-> lt]

\* NumberRep: `floating` and `integer` share storage; `value` is the active one
NumberRep(is_integer, value) == [is_integer |-> is_integer, value |-> value]

NoNumber == NumberRep(TRUE, 0)

\* LiteralType: only the member selected by underlying_type is active; the
\* inactive members are given fixed values so that equal literals are equal
make_literal_boolean(b) ==
    [tag |-> "LITERAL", underlying_type |-> "BOOLEAN",
     boolean |-> b, number |-> NoNumber, string |-> ""]

make_literal_number(n) ==
    [tag |-> "LITERAL", underlying_type |-> "NUMBER",
     boolean |-> FALSE, number |-> n, string |-> ""]

make_literal_string(s) ==
    [tag |-> "LITERAL", underlying_type |-> "STRING",
     boolean |-> FALSE, number |-> NoNumber, string |-> s]

make_function(genparams, nominals, params, ret, variadic) ==
    [tag |-> "FUNCTION", genparams |-> genparams, nominals |-> nominals,
     params |-> params, ret |-> ret, variadic |-> variadic]

make_tuple(types, is_variadic) ==
    [tag |-> "TUPLE", types |-> types, is_variadic |-> is_variadic]

SumType(types) == [tag |-> "SUM", types |-> types]

ProductType(types) == [tag |-> "PRODUCT", types |-> types]

KeyValPair(key, val) == [key |-> key, val |-> val]

NameType(name, type) == [name |-> name, type |-> type]

make_table(indexes, fields) ==
    [tag |-> "TABLE", indexes |-> indexes, fields |-> fields]

DeferredType(id, args) == [id |-> id, args |-> args]

make_deferred(id, args) == [tag |-> "DEFERRED", id |-> id, args |-> args]

make_nominal(id) == [tag |-> "NOMINAL", defer |-> DeferredType(id, <<>>)]

make_require(basis) == [tag |-> "REQUIRE", basis |-> basis]

\* std::optional<Type> without a value
nullopt == [tag |-> "NULLOPT"]

\* the Type "returned" by a call that recurses without end
StackOverflow == [tag |-> "OVERFLOW"]

\* the Type "returned" by a call that throws std::logic_error
LogicError == [tag |-> "LOGIC_ERROR"]

NoType == [tag |-> "NONE"]

\* a null `const Type*`
nullptr == [tag |-> "NULLPTR"]

IsType(t) ==
    t.tag \notin {"NULLOPT", "NULLPTR", "OVERFLOW", "LOGIC_ERROR", "NONE"}

\* an empty std::function for get_package_type
NoPackageType == [installed |-> FALSE]

----------------------------------------------------------------------------
(* DeferredTypeCollection: ids are 0-based indices into entries *)

Entry(type, name, nominals, narrowing) ==
    [type |-> type, name |-> name, nominals |-> nominals, narrowing |-> narrowing]

get_type(i) == entries[i + 1].type

get_nominals(i) == entries[i + 1].nominals

is_narrowing(i) == entries[i + 1].narrowing

----------------------------------------------------------------------------
(* Assignability: is_assignable(L, R), "R may flow into L".                *)
(* The last argument of every overload is the set of calls in progress     *)
(* that resolved a Deferred: the functions are pure, so a call that occurs *)
(* again below itself recurses without end.                                *)

RECURSIVE apply_genparams(_, _, _, _)
RECURSIVE operator_or(_, _)
RECURSIVE is_assignable(_, _, _)
RECURSIVE is_assignable_Sum_RHS(_, _, _)
RECURSIVE is_assignable_Deferred_RHS(_, _, _)
RECURSIVE is_divisible(_, _, _)
RECURSIVE is_assignable_Type_LuaType(_, _, _)
RECURSIVE is_assignable_Function_Function(_, _, _)
RECURSIVE is_assignable_Tuple_Tuple(_, _, _)
RECURSIVE is_assignable_Table_Table(_, _, _)
RECURSIVE is_assignable_Deferred_Deferred(_, _, _)
RECURSIVE is_assignable_Product_Product(_, _, _)
RECURSIVE is_assignable_Type_Function(_, _, _)
RECURSIVE is_assignable_Type_Sum(_, _, _)
RECURSIVE is_assignable_Type_Tuple(_, _, _)
RECURSIVE is_assignable_Type_Table(_, _, _)
RECURSIVE is_assignable_Type_Deferred(_, _, _)
RECURSIVE is_assignable_Type_Literal(_, _, _)
RECURSIVE is_assignable_Type_Nominal(_, _, _)
RECURSIVE is_assignable_Type_Product(_, _, _)

\* reduce_deferred(defer, get_package_type): the type a Deferred resolves to,
\* its type arguments substituted for the entry's nominals
reduce_deferred(defer, get_package_type) ==
    apply_genparams(defer.args, get_nominals(defer.id), get_package_type,
                    get_type(defer.id))

\* template <RHS> is_assignable(const SumType&, const RHS&); rhs_ is the Type
\* holding the RHS, so that is_assignable(type, rhs_) selects the overload
\* for (const Type&, const RHS&)
is_assignable_Sum_RHS(lsum, rhs_, stk) ==
    FirstYes([i \in 1..Len(lsum.types) |-> is_assignable(lsum.types[i], rhs_, stk)])

\* template <RHS> is_assignable(const DeferredType&, const RHS&)
is_assignable_Deferred_RHS(ldefer, rhs_, stk) ==
    LET call == <<"Deferred_RHS", ldefer, rhs_>>
    IN  IF call \in stk THEN Overflow
        ELSE is_assignable(reduce_deferred(ldefer, NoPackageType), rhs_,
                           stk \cup {call})

is_divisible(product, divisor, stk) ==
    FirstYes([i \in 1..Len(product.types) |->
                is_assignable(divisor, product.types[i], stk)])

is_assignable_LuaType_LuaType(llua, rlua) ==
    IF llua # rlua THEN No ELSE Yes

is_assignable_Type_LuaType(lhs_, rlua, stk) ==
    CASE lhs_.tag = "ANY" -> Yes
      [] lhs_.tag = "LUATYPE" -> is_assignable_LuaType_LuaType(lhs_.luatype, rlua)
      [] lhs_.tag = "SUM" -> is_assignable_Sum_RHS(lhs_, make_luatype(rlua), stk)
      [] lhs_.tag = "DEFERRED" ->
            is_assignable_Deferred_RHS(DeferredType(lhs_.id, lhs_.args),
                                       make_luatype(rlua), stk)
      [] OTHER -> No

\* is_assignable(FunctionType, FunctionType) with covariant parameters
Function_Function_covariant(lfunc, rfunc, stk) ==
    IF Len(rfunc.params) < Len(lfunc.params) THEN No
    ELSE
      LET lgenparams == [i \in 1..Len(lfunc.genparams) |-> lfunc.genparams[i].type]
          rgenparams == [i \in 1..Len(rfunc.genparams) |-> rfunc.genparams[i].type]
          param(i) ==
            With(apply_genparams(rgenparams, rfunc.nominals,
                                 NoPackageType, rfunc.params[i]),
                 LAMBDA rparam :
                   IF i <= Len(lfunc.params)
                   THEN is_assignable(
                           apply_genparams(lgenparams, lfunc.nominals,
                                           NoPackageType, lfunc.params[i]),
                           rparam, stk)
                   ELSE is_assignable_Type_LuaType(rparam, "NIL", stk))
      IN  With(FirstNo([i \in 1..Len(rfunc.params) |-> param(i)]),
               LAMBDA params :
                 IF params # Yes THEN params
                 ELSE is_assignable(
                         apply_genparams(lgenparams, lfunc.nominals,
                                         NoPackageType, lfunc.ret),
                         apply_genparams(rgenparams, lfunc.nominals,
                                         NoPackageType, rfunc.ret),
                         stk))

is_assignable_Function_Function(lfunc, rfunc, stk) ==
    IF Len(rfunc.params) < Len(lfunc.params) THEN No
    ELSE
      LET lgenparams == [i \in 1..Len(lfunc.genparams) |-> lfunc.genparams[i].type]
          rgenparams == [i \in 1..Len(rfunc.genparams) |-> rfunc.genparams[i].type]
          param(i) ==
            With(apply_genparams(rgenparams, rfunc.nominals,
                                 NoPackageType, rfunc.params[i]),
                 LAMBDA rparam :
                   IF i <= Len(lfunc.params)
                   THEN With(apply_genparams(lgenparams, lfunc.nominals,
                                             NoPackageType, lfunc.params[i]),
                             LAMBDA lparam :
                               IF IsType(lparam) /\ IsType(rparam)
                               THEN is_assignable(rparam, lparam, stk)
                               ELSE Overflow)
                   ELSE IF IsType(rparam)
                        THEN is_assignable_Type_LuaType(rparam, "NIL", stk)
                        ELSE Overflow)
          ret ==
            With(apply_genparams(lgenparams, lfunc.nominals,
                                 NoPackageType, lfunc.ret),
                 LAMBDA lret :
                   With(apply_genparams(rgenparams, lfunc.nominals,
                                        NoPackageType, rfunc.ret),
                        LAMBDA rret :
                          IF IsType(lret) /\ IsType(rret)
                          THEN is_assignable(lret, rret, stk)
                          ELSE Overflow))
      IN  With(FirstNo([i \in 1..Len(rfunc.params) |-> param(i)]),
               LAMBDA params : IF params # Yes THEN params ELSE ret)

\* is_assignable(TupleType, TupleType) without the splice of a tail tuple
Tuple_Tuple_unspliced(ltuple, rtuple, stk) ==
    LET l == ltuple.types
        r == rtuple.types
        edge == Min(Len(l), Len(r))
        items == [i \in 1..edge |-> is_assignable(l[i], r[i], stk)]
        missing ==
          IF Len(l) > Len(r) /\ ~rtuple.is_variadic
          THEN [i \in 1..(Len(l) - edge) |->
                  is_assignable_Type_LuaType(l[edge + i], "NIL", stk)]
          ELSE <<>>
        toomany ==
          IF Len(l) < Len(r) /\ ~ltuple.is_variadic THEN <<No>> ELSE <<>>
    IN  FirstNo(items \o missing \o toomany)

is_assignable_Tuple_Tuple(ltuple, rtuple, stk) ==
    LET l == ltuple.types
        r == rtuple.types
    IN  IF r # <<>> /\ r[Len(r)].tag = "TUPLE"
        THEN LET tup == r[Len(r)]
                 newrhs == SubSeq(r, 1, Len(r) - 1) \o tup.types
             IN  is_assignable_Tuple_Tuple(ltuple,
                                           make_tuple(newrhs, tup.is_variadic), stk)
        ELSE
          LET edge == Min(Len(l), Len(r))
              items == [i \in 1..edge |-> is_assignable(l[i], r[i], stk)]
              missing ==
                IF Len(l) > Len(r) /\ ~rtuple.is_variadic
                THEN [i \in 1..(Len(l) - edge) |->
                        is_assignable_Type_LuaType(l[edge + i], "NIL", stk)]
                ELSE <<>>
              toomany ==
                IF Len(l) < Len(r) /\ ~ltuple.is_variadic THEN <<No>> ELSE <<>>
          IN  FirstNo(items \o missing \o toomany)

is_assignable_Table_Table(ltable, rtable, stk) ==
    LET index(lindex) ==
          LET against(rindex) ==
                With(is_assignable(rindex.key, lindex.key, stk),
                     LAMBDA key :
                       IF key = Overflow THEN Overflow
                       ELSE IF key = Yes
                            THEN is_assignable(lindex.val, rindex.val, stk)
                            ELSE Yes)
              rfields ==
                With(is_assignable_Type_LuaType(lindex.key, "STRING", stk),
                     LAMBDA string :
                       IF string = Overflow THEN <<Overflow>>
                       ELSE IF string = Yes
                            THEN [j \in 1..Len(rtable.fields) |->
                                    is_assignable(lindex.val,
                                                  rtable.fields[j].type, stk)]
                            ELSE <<>>)
          IN  [j \in 1..Len(rtable.indexes) |-> against(rtable.indexes[j])]
              \o rfields
        field(lfield) ==
          LET same == {j \in 1..Len(rtable.fields) :
                          rtable.fields[j].name = lfield.name}
          IN  IF same # {}
              THEN LET j == CHOOSE k \in same : \A m \in same : k <= m
                   IN  is_assignable(lfield.type, rtable.fields[j].type, stk)
              ELSE is_assignable_Type_LuaType(lfield.type, "NIL", stk)
    IN  FirstNo(Flatten([i \in 1..Len(ltable.indexes) |-> index(ltable.indexes[i])])
                \o [i \in 1..Len(ltable.fields) |-> field(ltable.fields[i])])

is_assignable_Deferred_Deferred(ldefer, rdefer, stk) ==
    IF ldefer.id = rdefer.id THEN Yes
    ELSE LET call == <<"Deferred_Deferred", ldefer, rdefer>>
         IN  IF call \in stk THEN Overflow
             ELSE is_assignable_Type_Deferred(
                      reduce_deferred(ldefer, NoPackageType), rdefer,
                      stk \cup {call})

\* is_assignable(LiteralType, LiteralType) comparing numbers by value only
Literal_Literal_untagged(lliteral, rliteral) ==
    IF lliteral.underlying_type = rliteral.underlying_type
    THEN CASE lliteral.underlying_type = "BOOLEAN" ->
                IF lliteral.boolean = rliteral.boolean THEN Yes ELSE No
           [] lliteral.underlying_type = "NUMBER" ->
                IF lliteral.number.value = rliteral.number.value THEN Yes ELSE No
           [] lliteral.underlying_type = "STRING" ->
                IF lliteral.string = rliteral.string THEN Yes ELSE No
    ELSE No

is_assignable_Literal_Literal(lliteral, rliteral) ==
    IF lliteral.underlying_type = rliteral.underlying_type
    THEN CASE lliteral.underlying_type = "BOOLEAN" ->
                IF lliteral.boolean = rliteral.boolean THEN Yes ELSE No
           [] lliteral.underlying_type = "NUMBER" ->
                \* operator==(const NumberRep&, const NumberRep&)
                IF lliteral.number.is_integer # rliteral.number.is_integer THEN No
                ELSE IF lliteral.number.value = rliteral.number.value THEN Yes ELSE No
           [] lliteral.underlying_type = "STRING" ->
                IF lliteral.string = rliteral.string THEN Yes ELSE No
    ELSE No

is_assignable_Nominal_Nominal(lnominal, rnominal) ==
    IF lnominal.defer.id # rnominal.defer.id THEN No ELSE Yes

is_assignable_Product_Product(lproduct, rproduct, stk) ==
    FirstNo([i \in 1..Len(lproduct.types) |->
               is_assignable_Type_Product(lproduct.types[i], rproduct, stk)])

is_assignable_Type_Void(lhs_) ==
    IF lhs_.tag = "VOID" THEN Yes ELSE No

is_assignable_Type_Function(lhs_, rfunc, stk) ==
    CASE lhs_.tag = "ANY" -> Yes
      [] lhs_.tag = "FUNCTION" -> is_assignable_Function_Function(lhs_, rfunc, stk)
      [] lhs_.tag = "SUM" -> is_assignable_Sum_RHS(lhs_, rfunc, stk)
      [] lhs_.tag = "DEFERRED" ->
            is_assignable_Deferred_RHS(DeferredType(lhs_.id, lhs_.args), rfunc, stk)
      [] OTHER -> No

is_assignable_Type_Sum(lhs_, rsum, stk) ==
    FirstNo([i \in 1..Len(rsum.types) |-> is_assignable(lhs_, rsum.types[i], stk)])

is_assignable_Type_Tuple(lhs_, rtuple, stk) ==
    CASE lhs_.tag = "ANY" -> Yes
      [] lhs_.tag = "TUPLE" -> is_assignable_Tuple_Tuple(lhs_, rtuple, stk)
      [] lhs_.tag = "SUM" -> is_assignable_Sum_RHS(lhs_, rtuple, stk)
      [] lhs_.tag = "DEFERRED" ->
            is_assignable_Deferred_RHS(DeferredType(lhs_.id, lhs_.args), rtuple, stk)
      [] OTHER -> No

is_assignable_Type_Table(lhs_, rtable, stk) ==
    CASE lhs_.tag = "ANY" -> Yes
      [] lhs_.tag = "TABLE" -> is_assignable_Table_Table(lhs_, rtable, stk)
      [] lhs_.tag = "SUM" -> is_assignable_Sum_RHS(lhs_, rtable, stk)
      [] lhs_.tag = "DEFERRED" ->
            is_assignable_Deferred_RHS(DeferredType(lhs_.id, lhs_.args), rtable, stk)
      [] OTHER -> No

\* rdefer is a DeferredType (the member of a Deferred or of a Nominal)
is_assignable_Type_Deferred(lhs_, rdefer, stk) ==
    CASE lhs_.tag = "ANY" -> Yes
      [] lhs_.tag = "SUM" ->
            is_assignable_Sum_RHS(lhs_, make_deferred(rdefer.id, rdefer.args), stk)
      [] lhs_.tag = "DEFERRED" ->
            is_assignable_Deferred_Deferred(DeferredType(lhs_.id, lhs_.args),
                                            rdefer, stk)
      [] OTHER ->
            LET call == <<"Type_Deferred", lhs_, rdefer>>
            IN  IF call \in stk THEN Overflow
                ELSE is_assignable(lhs_, reduce_deferred(rdefer, NoPackageType),
                                   stk \cup {call})

is_assignable_Type_Literal(lhs_, rliteral, stk) ==
    CASE lhs_.tag = "ANY" -> Yes
      [] lhs_.tag = "LITERAL" -> is_assignable_Literal_Literal(lhs_, rliteral)
      [] lhs_.tag = "SUM" -> is_assignable_Sum_RHS(lhs_, rliteral, stk)
      [] lhs_.tag = "DEFERRED" ->
            is_assignable_Deferred_RHS(DeferredType(lhs_.id, lhs_.args), rliteral, stk)
      [] OTHER -> is_assignable_Type_LuaType(lhs_, rliteral.underlying_type, stk)

is_assignable_Type_Nominal(lhs_, rnominal, stk) ==
    CASE lhs_.tag = "ANY" -> Yes
      [] lhs_.tag = "NOMINAL" -> is_assignable_Nominal_Nominal(lhs_, rnominal)
      [] lhs_.tag = "SUM" -> is_assignable_Sum_RHS(lhs_, rnominal, stk)
      [] lhs_.tag = "DEFERRED" ->
            is_assignable_Deferred_RHS(DeferredType(lhs_.id, lhs_.args), rnominal, stk)
      [] OTHER -> is_assignable_Type_Deferred(lhs_, rnominal.defer, stk)

is_assignable_Type_Product(lhs_, rproduct, stk) ==
    CASE lhs_.tag = "ANY" -> Yes
      [] lhs_.tag = "PRODUCT" -> is_assignable_Product_Product(lhs_, rproduct, stk)
      [] lhs_.tag = "SUM" -> is_assignable_Sum_RHS(lhs_, rproduct, stk)
      [] lhs_.tag = "DEFERRED" ->
            is_assignable_Deferred_RHS(DeferredType(lhs_.id, lhs_.args), rproduct, stk)
      [] lhs_.tag = "FUNCTION" -> is_divisible(rproduct, lhs_, stk)
      [] OTHER -> No

\* is_assignable(const Type&, const Type&): the switch on rhs.get_tag()
is_assignable(lhs_, rhs_, stk) ==
    CASE rhs_.tag = "ANY" -> Yes
      [] rhs_.tag = "VOID" -> is_assignable_Type_Void(lhs_)
      [] rhs_.tag = "LUATYPE" -> is_assignable_Type_LuaType(lhs_, rhs_.luatype, stk)
      [] rhs_.tag = "FUNCTION" -> is_assignable_Type_Function(lhs_, rhs_, stk)
      [] rhs_.tag = "TUPLE" -> is_assignable_Type_Tuple(lhs_, rhs_, stk)
      [] rhs_.tag = "SUM" -> is_assignable_Type_Sum(lhs_, rhs_, stk)
      [] rhs_.tag = "TABLE" -> is_assignable_Type_Table(lhs_, rhs_, stk)
      [] rhs_.tag = "DEFERRED" ->
            is_assignable_Type_Deferred(lhs_, DeferredType(rhs_.id, rhs_.args), stk)
      [] rhs_.tag = "LITERAL" -> is_assignable_Type_Literal(lhs_, rhs_, stk)
      [] rhs_.tag = "NOMINAL" -> is_assignable_Type_Nominal(lhs_, rhs_, stk)
      [] rhs_.tag = "PRODUCT" -> is_assignable_Type_Product(lhs_, rhs_, stk)
      [] OTHER -> No

----------------------------------------------------------------------------
(* Generic application *)

RECURSIVE apply_all(_, _, _, _)
\* apply_genparams over the elements of a vector, in order
apply_all(genparams, nominals, get_package_type, types) ==
    [i \in 1..Len(types) |->
        apply_genparams(genparams, nominals, get_package_type, types[i])]

AllTypes(types) == \A i \in 1..Len(types) : IsType(types[i])

RECURSIVE or_all(_)
\* rv = *rv | t over the members of a Sum, left to right
or_all(types) ==
    IF Len(types) = 1 THEN types[1]
    ELSE LET rv == or_all(SubSeq(types, 1, Len(types) - 1))
         IN  IF IsType(rv) THEN operator_or(rv, types[Len(types)]) ELSE rv

apply_genparams(genparams, nominals, get_package_type, type) ==
    IF genparams = <<>> THEN type
    ELSE
      CASE type.tag = "NOMINAL" ->
             LET same == {i \in 1..Len(nominals) : nominals[i] = type.defer.id}
             IN  IF same = {} THEN type
                 ELSE LET i == CHOOSE k \in same : \A m \in same : k <= m
                      IN  IF genparams[i] = nullopt THEN make_any ELSE genparams[i]
        [] type.tag = "TABLE" ->
             LET keys == apply_all(genparams, nominals, get_package_type,
                            [i \in 1..Len(type.indexes) |-> type.indexes[i].key])
                 vals == apply_all(genparams, nominals, get_package_type,
                            [i \in 1..Len(type.indexes) |-> type.indexes[i].val])
                 ftypes == apply_all(genparams, nominals, get_package_type,
                            [i \in 1..Len(type.fields) |-> type.fields[i].type])
             IN  IF AllTypes(keys) /\ AllTypes(vals) /\ AllTypes(ftypes)
                 THEN make_table(
                        [i \in 1..Len(type.indexes) |-> KeyValPair(keys[i], vals[i])],
                        [i \in 1..Len(type.fields) |->
                            NameType(type.fields[i].name, ftypes[i])])
                 ELSE StackOverflow
        [] type.tag = "SUM" ->
             LET types == apply_all(genparams, nominals, get_package_type, type.types)
             IN  IF types = <<>> THEN make_any
                 ELSE IF AllTypes(types) THEN or_all(types) ELSE StackOverflow
        [] type.tag = "TUPLE" ->
             LET types == apply_all(genparams, nominals, get_package_type, type.types)
             IN  IF AllTypes(types) THEN make_tuple(types, type.is_variadic)
                 ELSE StackOverflow
        [] type.tag = "FUNCTION" ->
             LET bounds == apply_all(genparams, nominals, get_package_type,
                            [i \in 1..Len(type.genparams) |-> type.genparams[i].type])
                 params == apply_all(genparams, nominals, get_package_type, type.params)
                 ret == apply_genparams(genparams, nominals, get_package_type, type.ret)
             IN  IF AllTypes(bounds) /\ AllTypes(params) /\ IsType(ret)
                 THEN make_function(
                        [i \in 1..Len(type.genparams) |->
                            NameType(type.genparams[i].name, bounds[i])],
                        type.nominals, params, ret, type.variadic)
                 ELSE StackOverflow
        [] type.tag = "REQUIRE" ->
             LET inner_type == apply_genparams(genparams, nominals, get_package_type,
                                               type.basis)
             IN  IF ~IsType(inner_type) THEN StackOverflow
                 ELSE IF /\ get_package_type.installed
                         /\ inner_type.tag = "LITERAL"
                         /\ inner_type.underlying_type = "STRING"
                      THEN get_package_type.types[inner_type.string]
                      ELSE make_any
        [] OTHER -> type

----------------------------------------------------------------------------
(* Union, intersection, difference, narrowing *)

\* the loop of operator| adding every member of the right operand
or_push_unchecked(types, rhs_types) == types \o rhs_types

RECURSIVE or_push(_, _)
\* the loop over the members of a Sum right operand of operator|
or_push(types, rhs_types) ==
    IF rhs_types = <<>> THEN types
    ELSE LET type == Head(rhs_types)
         IN  With(is_assignable(SumType(types), type, {}),
                  LAMBDA r :
                    IF r = Overflow THEN <<StackOverflow>>
                    ELSE IF r # Yes
                         THEN or_push(Append(types, type), Tail(rhs_types))
                         ELSE or_push(types, Tail(rhs_types)))

operator_or(lhs_, rhs_) ==
    LET lhs_types == IF lhs_.tag = "SUM" THEN lhs_.types ELSE <<lhs_>>
    IN  With(is_assignable(lhs_, rhs_, {}),
             LAMBDA r :
               IF r = Overflow THEN StackOverflow
               ELSE IF r = Yes THEN lhs_
               ELSE With(IF rhs_.tag = "SUM" THEN or_push(lhs_types, rhs_.types)
                         ELSE Append(lhs_types, rhs_),
                         LAMBDA rv :
                           IF AllTypes(rv) THEN SumType(rv) ELSE StackOverflow))

RECURSIVE operator_and(_, _)
operator_and(lhs_, rhs_) ==
    With(is_assignable(lhs_, rhs_, {}),
         LAMBDA lr :
           IF lr = Overflow THEN StackOverflow
           ELSE IF lr = Yes THEN rhs_
           ELSE
             With(is_assignable(rhs_, lhs_, {}),
                  LAMBDA rl :
                    IF rl = Overflow THEN StackOverflow
                    ELSE IF rl = Yes THEN lhs_
                    ELSE IF lhs_.tag = "SUM"
                    THEN LET types == [i \in 1..Len(lhs_.types) |->
                                          operator_and(lhs_.types[i], rhs_)]
                         IN  IF AllTypes(types) THEN SumType(types)
                             ELSE StackOverflow
                    ELSE IF rhs_.tag = "SUM"
                    THEN LET types == [i \in 1..Len(rhs_.types) |->
                                          operator_and(lhs_, rhs_.types[i])]
                         IN  IF AllTypes(types) THEN SumType(types)
                             ELSE StackOverflow
                    ELSE ProductType(
                            (IF lhs_.tag = "PRODUCT" THEN lhs_.types ELSE <<lhs_>>)
                            \o (IF rhs_.tag = "PRODUCT" THEN rhs_.types
                                ELSE <<rhs_>>))))

RECURSIVE minus(_, _, _)
RECURSIVE minus_each(_, _, _, _)

\* `for (const auto& type : rhs.get_sum().types) result = result - rhs;`
\* the subtrahend of every step is rhs itself
minus_each(result_, types, rhs_, calls) ==
    IF types = <<>> \/ ~IsType(result_) THEN result_
    ELSE minus_each(minus(result_, rhs_, calls), Tail(types), rhs_, calls)

\* operator-; calls is the set of calls of operator- in progress
minus(lhs_, rhs_, calls) ==
    IF <<lhs_, rhs_>> \in calls THEN StackOverflow
    ELSE
      LET below == calls \cup {<<lhs_, rhs_>>}
      IN
      IF lhs_.tag = "SUM"
      THEN LET reduced == [i \in 1..Len(lhs_.types) |->
                              minus(lhs_.types[i], rhs_, below)]
               kept == SelectSeq(reduced, LAMBDA t : t.tag # "VOID")
           IN  IF ~AllTypes(reduced) THEN StackOverflow
               ELSE IF Len(kept) = 0 THEN Void
               ELSE IF Len(kept) = 1 THEN kept[1]
               ELSE SumType(kept)
      ELSE IF rhs_.tag = "SUM"
      THEN minus_each(lhs_, rhs_.types, rhs_, below)
      ELSE IF rhs_.tag = "LITERAL" /\ lhs_.tag = "LUATYPE"
      THEN IF lhs_.luatype = rhs_.underlying_type
              /\ rhs_.underlying_type = "BOOLEAN"
           THEN make_literal_boolean(~rhs_.boolean)
           ELSE lhs_
      ELSE IF rhs_.tag = "LITERAL" /\ lhs_.tag = "LITERAL"
      THEN LET are_same ==
                 /\ lhs_.underlying_type = rhs_.underlying_type
                 /\ CASE lhs_.underlying_type = "BOOLEAN" ->
                           lhs_.boolean = rhs_.boolean
                      [] lhs_.underlying_type = "NUMBER" ->
                           /\ lhs_.number.is_integer = rhs_.number.is_integer
                           /\ lhs_.number.value = rhs_.number.value
                      [] lhs_.underlying_type = "STRING" ->
                           lhs_.string = rhs_.string
                      [] OTHER -> FALSE
           IN  IF are_same THEN Void ELSE lhs_
      ELSE lhs_

operator_minus(lhs_, rhs_) == minus(lhs_, rhs_, {})

narrow_field(tabletype, fieldname, fieldtype) ==
    IF tabletype.tag # "TABLE" THEN LogicError
    ELSE
      LET found == \E i \in 1..Len(tabletype.fields) :
                      tabletype.fields[i].name = fieldname
      IN  With([i \in 1..Len(tabletype.fields) |->
                  IF tabletype.fields[i].name = fieldname
                  THEN NameType(fieldname,
                                operator_or(tabletype.fields[i].type, fieldtype))
                  ELSE tabletype.fields[i]],
               LAMBDA newfields :
                 IF \E i \in 1..Len(newfields) : ~IsType(newfields[i].type)
                 THEN StackOverflow
                 ELSE make_table(tabletype.indexes,
                                 IF found THEN newfields
                                 ELSE Append(newfields,
                                             NameType(fieldname, fieldtype))))

narrow_index(tabletype, keytype, valtype) ==
    IF tabletype.tag # "TABLE" THEN LogicError
    ELSE
      With([i \in 1..Len(tabletype.indexes) |->
              is_assignable(tabletype.indexes[i].key, keytype, {})],
           LAMBDA match :
             With([i \in 1..Len(tabletype.indexes) |->
                     IF match[i] = Yes
                     THEN KeyValPair(tabletype.indexes[i].key,
                                     operator_or(tabletype.indexes[i].val, valtype))
                     ELSE tabletype.indexes[i]],
                  LAMBDA newindexes :
                    IF \/ \E i \in 1..Len(match) : match[i] = Overflow
                       \/ \E i \in 1..Len(newindexes) : ~IsType(newindexes[i].val)
                    THEN StackOverflow
                    ELSE make_table(
                           IF \E i \in 1..Len(match) : match[i] = Yes
                           THEN newindexes
                           ELSE Append(newindexes, KeyValPair(keytype, valtype)),
                           tabletype.fields)))

----------------------------------------------------------------------------
(* Type-expression nodes (NType) and Scope::enable_basic_types *)

NTypeName(name) == [kind |-> "NTypeName", name |-> name]

NTypeLiteralNumber(value) == [kind |-> "NTypeLiteralNumber", value |-> value]

NTypeSum(l, r) == [kind |-> "NTypeSum", lhs |-> l, rhs |-> r]

NoNode == [kind |-> "none"]

\* the `types` map of a root scope after enable_basic_types()
enable_basic_types ==
    [name \in {"void", "any", "nil", "number", "string", "boolean", "thread"} |->
        CASE name = "void" -> Void
          [] name = "any" -> make_any
          [] name = "nil" -> make_luatype("NIL")
          [] name = "number" -> make_luatype("NUMBER")
          [] name = "string" -> make_luatype("STRING")
          [] name = "boolean" -> make_luatype("BOOLEAN")
          [] name = "thread" -> make_luatype("THREAD")]

RECURSIVE NType_get_type(_, _)
\* NTypeName::get_type, NTypeLiteralNumber::get_type, NTypeSum::get_type;
\* types is the `types` map of the scope
NType_get_type(n, types) ==
    CASE n.kind = "NTypeName" ->
           IF n.name \in DOMAIN types THEN types[n.name] ELSE make_any
      [] n.kind = "NTypeLiteralNumber" -> make_literal_number(n.value)
      [] n.kind = "NTypeSum" ->
           LET l == NType_get_type(n.lhs, types)
               r == NType_get_type(n.rhs, types)
           IN  IF IsType(l) /\ IsType(r) THEN operator_or(l, r) ELSE StackOverflow

----------------------------------------------------------------------------
(* Inputs *)

Nil == make_luatype("NIL")
Number == make_luatype("NUMBER")
String == make_luatype("STRING")
Boolean == make_luatype("BOOLEAN")

IntLit(v) == make_literal_number(NumberRep(TRUE, v))
FloatLit(v) == make_literal_number(NumberRep(FALSE, v))

\* the literal of the type expression `number | 3 | nil`
Three == IntLit(3)

\* a non-generic function type
Fn(params, ret, variadic) == make_function(<<>>, <<>>, params, ret, variadic)

\* the table at start: an interface `Node : { next : Node }`, a local in
\* narrowing mode, and the nominal of the generic parameter T of GenericId
Ids == [node |-> 0, local |-> 1, nominal |-> 2]
NodeId == Ids.node
LocalId == Ids.local
NominalId == Ids.nominal

InitEntries ==
    << Entry(make_table(<<>>, <<NameType("next", make_deferred(NodeId, <<>>))>>),
             "Node", <<>>, FALSE),
       Entry(Number, "x", <<>>, TRUE),
       Entry(Void, "T", <<>>, FALSE) >>

\* <T>(x: T): T
GenericId ==
    make_function(<<NameType("T", make_any)>>, <<NominalId>>,
                  <<make_nominal(NominalId)>>, make_nominal(NominalId), FALSE)

Literals ==
    {make_literal_boolean(TRUE), make_literal_boolean(FALSE),
     make_literal_string("x")}
    \cup {IntLit(v) : v \in 0..MaxLiteral} \cup {FloatLit(v) : v \in 0..MaxLiteral}

Functions ==
    {Fn(<<>>, Void, FALSE), Fn(<<Number>>, Nil, FALSE), Fn(<<String>>, Nil, FALSE),
     Fn(<<Number, SumType(<<String, Nil>>)>>, Number, TRUE), GenericId}

Tuples ==
    {make_tuple(<<Number, String>>, FALSE),
     make_tuple(<<Number, String, Boolean>>, FALSE),
     make_tuple(<<Number, make_tuple(<<String, Boolean>>, FALSE)>>, FALSE),
     make_tuple(<<Number>>, TRUE)}

Sums ==
    {SumType(<<Number, String>>), SumType(<<Number, Boolean>>),
     SumType(<<Number, Nil>>), SumType(<<Three, Nil>>),
     SumType(<<make_literal_boolean(TRUE), make_literal_boolean(FALSE)>>),
     SumType(<<make_literal_boolean(TRUE), make_literal_string("x")>>)}

Products ==
    {ProductType(<<Fn(<<Number>>, Nil, FALSE), Fn(<<String>>, Nil, FALSE)>>),
     ProductType(<<make_table(<<>>, <<NameType("a", Number)>>),
                   make_table(<<>>, <<NameType("b", String)>>)>>)}

Tables ==
    {make_table(<<>>, <<>>),
     make_table(<<>>, <<NameType("a", Number)>>),
     make_table(<<>>, <<NameType("a", Number), NameType("b", String)>>),
     make_table(<<KeyValPair(Number, String)>>, <<>>),
     make_table(<<KeyValPair(Number, String), KeyValPair(String, Number)>>, <<>>),
     make_table(<<KeyValPair(make_any, Number), KeyValPair(String, String)>>, <<>>),
     make_table(<<KeyValPair(String, Number)>>, <<NameType("a", String)>>),
     make_table(<<>>, <<NameType("next", make_deferred(NodeId, <<>>))>>)}

Universe ==
    {Void, make_any, Nil, Number, String, Boolean}
    \cup Literals \cup Functions \cup Tuples \cup Sums \cup Products \cup Tables
    \cup {make_deferred(NodeId, <<>>), make_deferred(LocalId, <<>>),
          make_nominal(NominalId),
          make_require(make_literal_string("x")), make_require(String)}

\* parameter and return types of the one-parameter function pairs
FunctionElems == {Number, String, Nil, Three, make_any,
                  SumType(<<Number, Nil>>)}

FunctionPairs ==
    {<<Fn(<<a>>, b, FALSE), Fn(<<a2>>, b2, v)>> :
        a \in FunctionElems, b \in FunctionElems \cup {Void},
        a2 \in FunctionElems, b2 \in FunctionElems \cup {Void}, v \in BOOLEAN}

\* element types A, B, C of the tuple pairs
TupleElems == {Number, String, Nil, Three, make_any,
               make_require(String)}

Nested(a, b, c, v) == make_tuple(<<a, make_tuple(<<b, c>>, v)>>, FALSE)

Flat(a, b, c, v) == make_tuple(<<a, b, c>>, v)

Flat4(a, b, c) == make_tuple(<<a, b, c, Number>>, FALSE)

\* Tuple[A, Tuple[B,C]] on the left of Tuple[A,B,C], and on the right of
\* Tuple[A,B,C] and of Tuple[A,B,C,Number]
TuplePairs ==
    {<<Nested(a, b, c, FALSE), Flat(a, b, c, FALSE)>> :
        a \in TupleElems, b \in TupleElems, c \in TupleElems}
    \cup
    {<<Flat(a, b, c, FALSE), Nested(a, b, c, v)>> :
        a \in TupleElems, b \in TupleElems, c \in TupleElems, v \in BOOLEAN}
    \cup
    {<<Flat4(a, b, c), Nested(a, b, c, v)>> :
        a \in TupleElems, b \in TupleElems, c \in TupleElems, v \in BOOLEAN}

\* leaves of the type expressions `x | y | z`
Leaves ==
    {NTypeName("number"), NTypeName("nil"), NTypeName("string"),
     NTypeName("boolean")}
    \cup {NTypeLiteralNumber(NumberRep(TRUE, v)) : v \in {0, 3}}

TypeExprs ==
    {NTypeSum(NTypeSum(x, y), z) : x \in Leaves, y \in Leaves, z \in Leaves}
    \cup {NTypeSum(x, NTypeSum(y, z)) : x \in Leaves, y \in Leaves, z \in Leaves}

FieldNames == {"a", "c"}

KeyTypes == {Number, String}

----------------------------------------------------------------------------
(* Specification: one operation applied to one input *)

Init ==
    /\ entries = InitEntries
    /\ scopes = <<>>
    /\ errors = <<>>
    /\ steps = 0
    /\ op = "init"
    /\ yes = NotCalled
    /\ result = NoType
    /\ \/ /\ \E pair \in (Universe \X Universe) \cup FunctionPairs \cup TuplePairs :
                lhs = pair[1] /\ rhs = pair[2]
          /\ node = NoNode
       \/ /\ node \in TypeExprs
          /\ lhs = Void
          /\ rhs = Void

Applied(name, r, t) ==
    /\ op = "init"
    /\ op' = name
    /\ yes' = r
    /\ result' = t
    /\ UNCHANGED <<entries, lhs, rhs, node, scopes, errors, steps>>

IsAssignable ==
    /\ node = NoNode
    /\ Applied("is_assignable", is_assignable(lhs, rhs, {}), NoType)

Union ==
    /\ node = NoNode
    /\ Applied("operator|", NotCalled, operator_or(lhs, rhs))

Intersection ==
    /\ node = NoNode
    /\ Applied("operator&", NotCalled, operator_and(lhs, rhs))

Difference ==
    /\ node = NoNode
    /\ Applied("operator-", NotCalled, operator_minus(lhs, rhs))

NarrowField ==
    /\ node = NoNode
    /\ \E fieldname \in FieldNames :
          Applied("narrow_field", NotCalled, narrow_field(lhs, fieldname, rhs))

NarrowIndex ==
    /\ node = NoNode
    /\ \E keytype \in KeyTypes :
          Applied("narrow_index", NotCalled, narrow_index(lhs, keytype, rhs))

ApplyGenparams ==
    /\ node = NoNode
    /\ \E inferred \in {rhs, nullopt} :
          Applied("apply_genparams", NotCalled,
                  apply_genparams(<<inferred>>, <<NominalId>>, NoPackageType, lhs))

TypeExpr ==
    /\ node # NoNode
    /\ Applied("get_type", NotCalled, NType_get_type(node, enable_basic_types))

Next ==
    \/ IsAssignable
    \/ Union
    \/ Intersection
    \/ Difference
    \/ NarrowField
    \/ NarrowIndex
    \/ ApplyGenparams
    \/ TypeExpr

Spec == Init /\ [][Next]_vars

----------------------------------------------------------------------------
(* DeferredTypeCollection: the operations that write; es is the `entries`  *)
(* vector, and the id a reserve returns is `entries.size() - 1` afterwards *)

\* int reserve(std::string name)
reserve(es, name) == Append(es, Entry(Void, name, <<>>, FALSE))

\* int reserve(std::string name, Type type)
reserve_type(es, name, type) == Append(es, Entry(type, name, <<>>, FALSE))

\* a reserve that inserts at the front: every entry issued before moves
reserve_narrow_relocating(es, name) == <<Entry(Void, name, <<>>, TRUE)>> \o es

\* int reserve_narrow(std::string name)
reserve_narrow(es, name) == Append(es, Entry(Void, name, <<>>, TRUE))

\* the value returned by the reserve that produced es
reserved_id(es) == Len(es) - 1

set(es, i, t) == [es EXCEPT ![i + 1].type = t]

set_nominals(es, i, nominals) == [es EXCEPT ![i + 1].nominals = nominals]

----------------------------------------------------------------------------
(* Scope. The scopes alive form a stack (every Scope is a local variable   *)
(* of the handler that creates it); sc is that stack, a scope is named by  *)
(* its position in it, and `parent` is a position or 0 for a null pointer. *)

NoNames == [n \in {} |-> Void]

\* names.insert_or_assign(name, type), types[name] = type
insert_or_assign(m, name, type) ==
    [n \in DOMAIN m \cup {name} |-> IF n = name THEN type ELSE m[n]]

\* Scope(DeferredTypeCollection* dt). `owner` is not a member of the class:
\* it records the function whose local variable the Scope is (the node for
\* a handler), which the call stack holds in the program
Scope_root ==
    [parent |-> 0, names |-> NoNames, types |-> NoNames,
     dots_state |-> "INHERIT", dots_type |-> nullopt,
     return_type_state |-> "INHERIT", return_type |-> nullopt,
     deferred_types |-> TRUE, owner |-> [kind |-> "main"]]

\* Scope(Scope* parent), as the local variable this_scope of NBlock::check
Scope(parent) ==
    [parent |-> parent, names |-> NoNames, types |-> NoNames,
     dots_state |-> "INHERIT", dots_type |-> nullopt,
     return_type_state |-> "INHERIT", return_type |-> nullopt,
     deferred_types |-> FALSE, owner |-> [kind |-> "NBlock"]]

\* Scope(Scope* parent), as a local variable of the handler of node n
Scope_of(parent, n) == [Scope(parent) EXCEPT !.owner = n]

\* the outcome of a handler that does not return: a null pointer was
\* dereferenced and the process stopped, an exception left check(), or the
\* recursion of the type algebra did not end
Crash == [tag |-> "CRASH"]

\* what `parent->f()` can produce when parent is null: the process stops, or
\* the call reads memory that is not a Scope and returns a pointer, null or
\* pointing at some Type
UndefinedResults == {Crash, nullptr, make_any, make_luatype("NIL")}

RECURSIVE get_type_of(_, _, _)
get_type_of(sc, s, name) ==
    IF name \in DOMAIN sc[s].names THEN sc[s].names[name]
    ELSE IF sc[s].parent # 0 THEN get_type_of(sc, sc[s].parent, name)
    ELSE nullptr

add_name(sc, s, name, type) ==
    [sc EXCEPT ![s].names = insert_or_assign(@, name, type)]

RECURSIVE add_global_name(_, _, _, _)
\* a global write that stays in the scope it is made in
add_global_name_local(sc, s, name, type) ==
    [sc EXCEPT ![s].names = insert_or_assign(@, name, type)]

add_global_name(sc, s, name, type) ==
    IF sc[s].parent # 0 THEN add_global_name(sc, sc[s].parent, name, type)
    ELSE [sc EXCEPT ![s].names = insert_or_assign(@, name, type)]

RECURSIVE get_dots_type(_, _, _)
\* ub is what a call through a null parent produces
get_dots_type(sc, s, ub) ==
    CASE sc[s].dots_state = "INHERIT" ->
           IF sc[s].parent = 0 THEN ub
           ELSE get_dots_type(sc, sc[s].parent, ub)
      [] sc[s].dots_state = "NONE" -> nullptr
      [] sc[s].dots_state = "OWN" -> sc[s].dots_type

set_dots_type(sc, s, type) ==
    [sc EXCEPT ![s].dots_type = type, ![s].dots_state = "OWN"]

disable_dots(sc, s) ==
    [sc EXCEPT ![s].dots_type = nullopt, ![s].dots_state = "NONE"]

RECURSIVE Scope_get_type(_, _, _)
\* Scope::get_type(name): the type alias visible under name
Scope_get_type(sc, s, name) ==
    IF name \in DOMAIN sc[s].types THEN sc[s].types[name]
    ELSE IF sc[s].parent # 0 THEN Scope_get_type(sc, sc[s].parent, name)
    ELSE nullptr

add_type(sc, s, name, type) ==
    [sc EXCEPT ![s].types = insert_or_assign(@, name, type)]

RECURSIVE get_fixed_return_type(_, _, _)
get_fixed_return_type(sc, s, ub) ==
    CASE sc[s].return_type_state = "INHERIT" ->
           IF sc[s].parent = 0 THEN ub
           ELSE get_fixed_return_type(sc, sc[s].parent, ub)
      [] sc[s].return_type_state = "FIXED" ->
           IF sc[s].return_type # nullopt THEN sc[s].return_type ELSE nullptr
      [] sc[s].return_type_state = "DEDUCE" -> nullptr

RECURSIVE get_return_type(_, _, _)
get_return_type(sc, s, ub) ==
    CASE sc[s].return_type_state = "INHERIT" ->
           IF sc[s].parent = 0 THEN ub
           ELSE get_return_type(sc, sc[s].parent, ub)
      [] sc[s].return_type_state = "DEDUCE" ->
           IF sc[s].return_type # nullopt THEN sc[s].return_type ELSE nullptr
      [] sc[s].return_type_state = "FIXED" -> sc[s].return_type

RECURSIVE add_return_type(_, _, _, _)
\* an add_return_type that keeps the type of the last `return` only
add_return_type_overwriting(sc, s, type, ub) ==
    CASE sc[s].return_type_state = "INHERIT" ->
           IF sc[s].parent = 0
           THEN IF ub = Crash THEN Crash ELSE sc
           ELSE add_return_type(sc, sc[s].parent, type, ub)
      [] sc[s].return_type_state = "DEDUCE" -> [sc EXCEPT ![s].return_type = type]
      [] sc[s].return_type_state = "FIXED" -> Crash

\* the scopes after add_return_type, or Crash; a write through a null parent
\* that does not stop the process lands outside every Scope
add_return_type(sc, s, type, ub) ==
    CASE sc[s].return_type_state = "INHERIT" ->
           IF sc[s].parent = 0
           THEN IF ub = Crash THEN Crash ELSE sc
           ELSE add_return_type(sc, sc[s].parent, type, ub)
      [] sc[s].return_type_state = "DEDUCE" ->
           IF sc[s].return_type # nullopt
           THEN With(operator_or(sc[s].return_type, type),
                     LAMBDA sum :
                       IF IsType(sum) THEN [sc EXCEPT ![s].return_type = sum]
                       ELSE Crash)
           ELSE [sc EXCEPT ![s].return_type = type]
      [] sc[s].return_type_state = "FIXED" -> Crash

set_return_type(sc, s, type) ==
    [sc EXCEPT ![s].return_type = type, ![s].return_type_state = "FIXED"]

deduce_return_type(sc, s) == [sc EXCEPT ![s].return_type_state = "DEDUCE"]

\* the scopes on the parent chain of s, s included
RECURSIVE chain(_, _)
chain(sc, s) == IF s = 0 THEN {} ELSE {s} \cup chain(sc, sc[s].parent)

----------------------------------------------------------------------------
(* CompileError and the expression nodes *)

\* CompileError(message, location): severity ERROR. A message is the
\* sequence of its words and of the names quoted in it
CompileError(message) == [severity |-> "ERROR", message |-> message]

\* CompileError(severity, message, location)
CompileError_severity(severity, message) ==
    [severity |-> severity, message |-> message]

\* the text of an AssignResult that is not yes
to_string(r) == <<"AssignResult", r>>

\* std::stoll on a token made of decimal digits
Digits == <<"0", "1", "2", "3", "4", "5", "6", "7", "8", "9">>

RECURSIVE stoll(_)
stoll(str) ==
    IF str = <<>> THEN 0
    ELSE 10 * stoll(SubSeq(str, 1, Len(str) - 1))
         + ((CHOOSE d \in 1..10 : Digits[d] = str[Len(str)]) - 1)

\* NumberRep(const std::string&) for a token made of decimal digits
NumberRep_string(str) == NumberRep(TRUE, stoll(str.digits))

\* normalize_quotes for a token that holds no quote and no backslash between
\* its delimiters: the characters between the delimiters
normalize_quotes(value) == value.chars

\* value is the token: its digits
NNumberLiteral(digits) ==
    [kind |-> "NNumberLiteral", value |-> [digits |-> digits]]

\* value is the token: its delimiter and the characters between
NStringLiteral(quote, chars) ==
    [kind |-> "NStringLiteral", value |-> [quote |-> quote, chars |-> chars]]

NIdent(name) == [kind |-> "NIdent", name |-> name]

NDots == [kind |-> "NDots"]

\* NExpr::get_type of the expression nodes that cache no type
NExpr_get_type(e, sc, s) ==
    CASE e.kind = "NNumberLiteral" ->
           make_literal_number(NumberRep_string(e.value))
      [] e.kind = "NStringLiteral" ->
           make_literal_string(normalize_quotes(e.value))
      [] e.kind = "NIdent" ->
           IF get_type_of(sc, s, e.name) # nullptr
           THEN get_type_of(sc, s, e.name) ELSE make_any
      [] e.kind = "NDots" -> make_any

make_reduced_tuple(types) ==
    IF Len(types) = 1 THEN types[1] ELSE make_tuple(types, FALSE)

\* <key> = <value> in a table constructor; the values are literals
NFieldNamed(key, value) == [key |-> key, value |-> value]

NTableConstructor(fields) == [kind |-> "NTableConstructor", fields |-> fields]

\* the state a handler works on: the scope stack, the collection, the error
\* vector it was handed, whether it came to an end, and the cached_type of
\* the table constructor it checked
Cx(sc, es, er) ==
    [scopes |-> sc, entries |-> es, errors |-> er, crashed |-> FALSE,
     cached_type |-> NoType]

emplace_back(cx, error) == [cx EXCEPT !.errors = Append(@, error)]

\* std::find_if over a FieldMap: the position of the field, 0 for end()
find_field(fields, name) ==
    IF \E i \in 1..Len(fields) : fields[i].name = name
    THEN CHOOSE i \in 1..Len(fields) :
            /\ fields[i].name = name
            /\ \A j \in 1..(i - 1) : fields[j].name # name
    ELSE 0

\* the name a reserve_narrow is given: "@" and the line number of the node
AtLine == "@1"

\* a failed lookup that reports the name and binds nothing
fail_common_unbound(n, cx, s) ==
    emplace_back(cx, CompileError(<<"Name", n.name, "is not in scope">>))

\* NIdent::fail_common
fail_common(n, cx, s) ==
    [emplace_back(cx, CompileError(<<"Name", n.name, "is not in scope">>))
        EXCEPT !.scopes = add_name(@, s, n.name, make_any)]

\* NIdent::check
NIdent_check(n, cx, s) ==
    IF get_type_of(cx.scopes, s, n.name) = nullptr THEN fail_common(n, cx, s)
    ELSE cx

\* NDots::check
NDots_check(cx, s, ub) ==
    With(get_dots_type(cx.scopes, s, ub),
         LAMBDA dots :
           IF dots = Crash THEN [cx EXCEPT !.crashed = TRUE]
           ELSE IF dots = nullptr
           THEN emplace_back(cx, CompileError(<<"Scope does not contain ...">>))
           ELSE cx)

RECURSIVE add_to_table(_, _, _, _)
\* the loop of NFieldNamed::add_to_table over the fields that remain; the
\* result holds the handler's state and fielddecls
add_to_table(fields, fielddecls, cx, s) ==
    IF fields = <<>> \/ cx.crashed THEN [cx |-> cx, fielddecls |-> fielddecls]
    ELSE
      With(NExpr_get_type(Head(fields).value, cx.scopes, s),
           LAMBDA valuetype :
             With(find_field(fielddecls, Head(fields).key),
                  LAMBDA iter :
                    IF iter # 0
                    THEN With(operator_or(fielddecls[iter].type, valuetype),
                              LAMBDA sum :
                                add_to_table(
                                  Tail(fields),
                                  [fielddecls EXCEPT ![iter].type = sum],
                                  [emplace_back(cx, CompileError(
                                     <<"Duplicate table key", Head(fields).key>>))
                                     EXCEPT !.crashed = ~IsType(sum)],
                                  s))
                    ELSE add_to_table(
                           Tail(fields),
                           Append(fielddecls, NameType(Head(fields).key, valuetype)),
                           cx, s)))

\* NTableConstructor::check; NFieldNamed::check of a literal value is
\* Node::check
NTableConstructor_check(n, cx, s) ==
    IF n.fields = <<>>
    THEN [cx EXCEPT
            !.entries = set(reserve_narrow(@, AtLine),
                            reserved_id(reserve_narrow(@, AtLine)),
                            make_table(<<>>, <<>>)),
            !.cached_type = make_deferred(
                              reserved_id(reserve_narrow(cx.entries, AtLine)), <<>>)]
    ELSE With(add_to_table(n.fields, <<>>, cx, s),
              LAMBDA t :
                [t.cx EXCEPT !.cached_type = make_table(<<>>, t.fielddecls)])

\* NExpr::check of the expression nodes; the literals inherit Node::check
NExpr_check(e, cx, s, ub) ==
    CASE e.kind = "NIdent" -> NIdent_check(e, cx, s)
      [] e.kind = "NDots" -> NDots_check(cx, s, ub)
      [] e.kind = "NTableConstructor" -> NTableConstructor_check(e, cx, s)
      [] OTHER -> cx

\* the type get_type gives e after the check that left cx
NExpr_type(e, cx, s) ==
    IF e.kind = "NTableConstructor" THEN cx.cached_type
    ELSE NExpr_get_type(e, cx.scopes, s)

----------------------------------------------------------------------------
(* Type annotations: NNameDecl, NTypeName, NTypeTable, NFieldDeclList *)

NFieldDecl(name, type) == [name |-> name, type |-> type]

\* a table type without index list; cached_fields is empty until the check
NTypeTable(fields) ==
    [kind |-> "NTypeTable", fields |-> fields, cached_fields |-> <<>>]

\* NNameDecl; type is NoNode for a name without annotation
NNameDecl(name, type) == [name |-> name, type |-> type]

RECURSIVE visible_types(_, _)
\* the map Scope::get_type looks names up in: the `types` of the scopes on
\* the parent chain, the nearest scope first
visible_types(sc, s) ==
    IF sc[s].parent = 0 THEN sc[s].types
    ELSE LET outer == visible_types(sc, sc[s].parent)
         IN  [n \in DOMAIN sc[s].types \cup DOMAIN outer |->
                 IF n \in DOMAIN sc[s].types THEN sc[s].types[n] ELSE outer[n]]

\* NTypeName::check
NTypeName_check(t, cx, s) ==
    IF Scope_get_type(cx.scopes, s, t.name) = nullptr
    THEN emplace_back(cx, CompileError(<<"Type", t.name, "not in scope">>))
    ELSE cx

\* NFieldDecl::check; the field types are type names or literals
NFieldDecl_check(field, cx, s) ==
    IF field.type.kind = "NTypeName" THEN NTypeName_check(field.type, cx, s)
    ELSE cx

RECURSIVE NFieldDeclList_check(_, _, _, _)

\* NFieldDeclList::check without the look-up: every field is pushed back
NFieldDeclList_check_appending(fields, cached_fields, cx, s) ==
    IF fields = <<>> \/ cx.crashed
    THEN [cx |-> cx, cached_fields |-> cached_fields]
    ELSE With(NFieldDecl_check(Head(fields), cx, s),
              LAMBDA c1 :
                NFieldDeclList_check(
                  Tail(fields),
                  Append(cached_fields,
                         NameType(Head(fields).name,
                                  NType_get_type(Head(fields).type,
                                                 visible_types(c1.scopes, s)))),
                  c1, s))

\* NFieldDeclList::check over the fields that remain; the result holds the
\* handler's state and the node's cached_fields
NFieldDeclList_check(fields, cached_fields, cx, s) ==
    IF fields = <<>> \/ cx.crashed
    THEN [cx |-> cx, cached_fields |-> cached_fields]
    ELSE
      With(NFieldDecl_check(Head(fields), cx, s),
           LAMBDA c1 :
             With(NType_get_type(Head(fields).type, visible_types(c1.scopes, s)),
                  LAMBDA fieldtype :
                    With(find_field(cached_fields, Head(fields).name),
                         LAMBDA iter :
                           IF iter # 0
                           THEN With(operator_or(cached_fields[iter].type, fieldtype),
                                     LAMBDA sum :
                                       NFieldDeclList_check(
                                         Tail(fields),
                                         [cached_fields EXCEPT ![iter].type = sum],
                                         [emplace_back(c1, CompileError(
                                            <<"Duplicate table key",
                                              Head(fields).name>>))
                                            EXCEPT !.crashed = ~IsType(sum)],
                                         s))
                           ELSE NFieldDeclList_check(
                                  Tail(fields),
                                  Append(cached_fields,
                                         NameType(Head(fields).name, fieldtype)),
                                  c1, s))))

\* NType::check of a type annotation: NTypeName::check, NTypeTable::check
NType_check(t, cx, s) ==
    CASE t.kind = "NTypeName" -> NTypeName_check(t, cx, s)
      [] t.kind = "NTypeTable" ->
           NFieldDeclList_check(t.fields, t.cached_fields, cx, s).cx
      [] OTHER -> cx

\* the annotation node after its check: a table type holds its cached_fields
NType_checked(t, cx, s) ==
    IF t.kind = "NTypeTable"
    THEN [t EXCEPT !.cached_fields =
            NFieldDeclList_check(t.fields, t.cached_fields, cx, s).cached_fields]
    ELSE t

\* NType::get_type of a checked annotation; NTypeTable::get_type returns the
\* cached fields
NType_type(t, sc, s) ==
    IF t.kind = "NTypeTable" THEN make_table(<<>>, t.cached_fields)
    ELSE NType_get_type(t, visible_types(sc, s))

\* NNameDecl::check
NNameDecl_check(decl, cx, s) ==
    IF decl.type # NoNode THEN NType_check(decl.type, cx, s) ELSE cx

\* the declaration after NNameDecl::check
NNameDecl_checked(decl, cx, s) ==
    IF decl.type # NoNode
    THEN [decl EXCEPT !.type = NType_checked(decl.type, cx, s)]
    ELSE decl

\* NNameDecl::get_type
NNameDecl_get_type(decl, sc, s) ==
    IF decl.type # NoNode THEN NType_type(decl.type, sc, s) ELSE make_any

----------------------------------------------------------------------------
(* Statements *)

\* local <name> [: <type>] [= <expr>]; expr is NoNode when absent
NLocalVar(name, expr) == [kind |-> "NLocalVar", name |-> name, expr |-> expr]

\* <var> = <expr> with an identifier on the left
NAssignment(var, expr) == [kind |-> "NAssignment", var |-> var, expr |-> expr]

\* NLocalVar::check, lines 1230-1246: the binding of the name
NLocalVar_bind(decl, exprtypes, cx, s) ==
    IF decl.type # NoNode
    THEN [cx EXCEPT !.scopes =
            add_name(@, s, decl.name, NNameDecl_get_type(decl, cx.scopes, s))]
    ELSE IF exprtypes # <<>>
    THEN IF exprtypes[1].tag = "LITERAL"
         THEN [cx EXCEPT
                 !.entries = set(reserve_narrow(@, AtLine),
                                 reserved_id(reserve_narrow(@, AtLine)),
                                 exprtypes[1]),
                 !.scopes = add_name(@, s, decl.name,
                              make_deferred(
                                reserved_id(reserve_narrow(cx.entries, AtLine)),
                                <<>>))]
         ELSE [cx EXCEPT !.scopes = add_name(@, s, decl.name, exprtypes[1])]
    ELSE [cx EXCEPT !.scopes = add_name(@, s, decl.name, make_any)]

\* NLocalVar::check
NLocalVar_check(n, cx, s, ub) ==
    With(NNameDecl_check(
           n.name,
           IF get_type_of(cx.scopes, s, n.name.name) # nullptr
           THEN emplace_back(cx, CompileError_severity("WARNING",
                  <<"Local variable shadows name", n.name.name>>))
           ELSE cx,
           s),
         LAMBDA c1 :
           With(IF n.expr # NoNode THEN NExpr_check(n.expr, c1, s, ub) ELSE c1,
                LAMBDA c2 :
                  IF c2.crashed THEN c2
                  ELSE NLocalVar_bind(
                         NNameDecl_checked(n.name, c1, s),
                         IF n.expr = NoNode THEN <<>>
                         ELSE With(NExpr_type(n.expr, c2, s),
                                   LAMBDA exprtype :
                                     IF exprtype.tag = "TUPLE" THEN exprtype.types
                                     ELSE <<exprtype>>),
                         c2, s)))

\* NIdent::check_expect
NIdent_check_expect(n, expected, cx, s) ==
    With(get_type_of(cx.scopes, s, n.name),
         LAMBDA type :
           IF type = nullptr THEN fail_common(n, cx, s)
           ELSE IF type.tag = "DEFERRED" /\ cx.entries[type.id + 1].narrowing
           THEN With(operator_or(cx.entries[type.id + 1].type, expected),
                     LAMBDA narrowed_type :
                       IF IsType(narrowed_type)
                       THEN [cx EXCEPT !.entries = set(@, type.id, narrowed_type)]
                       ELSE [cx EXCEPT !.crashed = TRUE])
           ELSE cx)

\* <prefix>.<name> with an identifier as prefix
NTableAccess(prefix, name) ==
    [kind |-> "NTableAccess", prefix |-> prefix, name |-> name]

\* the branch of NTableAccess::check_expect that narrows: the prefix is a
\* Deferred in narrowing mode that holds a Table
Narrows(n, cx, s) ==
    With(NExpr_get_type(n.prefix, cx.scopes, s),
         LAMBDA prefixtype :
           /\ prefixtype.tag = "DEFERRED"
           /\ cx.entries[prefixtype.id + 1].narrowing
           /\ cx.entries[prefixtype.id + 1].type.tag = "TABLE")

\* NTableAccess::check_expect where it narrows (lines 438-457); the other
\* branches go to check_common and are offered by no action
NTableAccess_check_expect(n, expected, cx, s) ==
    With(NIdent_check(n.prefix, cx, s),
         LAMBDA c1 :
           With(NExpr_get_type(n.prefix, c1.scopes, s),
                LAMBDA prefixtype :
                  With(narrow_field(c1.entries[prefixtype.id + 1].type, n.name,
                                    expected),
                       LAMBDA narrowed_type :
                         IF IsType(narrowed_type)
                         THEN [c1 EXCEPT !.entries =
                                 set(@, prefixtype.id, narrowed_type)]
                         ELSE [c1 EXCEPT !.crashed = TRUE])))

\* NExpr::check_expect of the variable of an assignment
NExpr_check_expect(var, expected, cx, s) ==
    IF var.kind = "NTableAccess"
    THEN NTableAccess_check_expect(var, expected, cx, s)
    ELSE NIdent_check_expect(var, expected, cx, s)

\* get_type of the variable of an assignment; an NTableAccess that narrowed
\* has no cached_type
Var_get_type(var, sc, s) ==
    IF var.kind = "NTableAccess" THEN make_any
    ELSE NExpr_get_type(var, sc, s)

----------------------------------------------------------------------------
(* Generic inference: check_param and NFunctionCall *)

\* AssignResult together with genparams_inferred, which check_param updates
ParamResult(r, inferred) == [r |-> r, inferred |-> inferred]

\* the (param, arg) pairs check_param visits for a table parameter: the
\* values of the index pairs whose keys match, then the same-named fields;
\* <<Overflow>> if a key comparison does not end
table_pairs(table, argtable) ==
    With([i \in 1..Len(table.indexes) |->
            [j \in 1..Len(argtable.indexes) |->
                is_assignable(argtable.indexes[j].key, table.indexes[i].key, {})]],
         LAMBDA match :
           IF \E i \in 1..Len(table.indexes) :
                 \E j \in 1..Len(argtable.indexes) : match[i][j] = Overflow
           THEN <<Overflow>>
           ELSE Flatten([i \in 1..Len(table.indexes) |->
                   Flatten([j \in 1..Len(argtable.indexes) |->
                      IF match[i][j] = Yes
                      THEN << <<table.indexes[i].val, argtable.indexes[j].val>> >>
                      ELSE <<>>])])
                \o Flatten([i \in 1..Len(table.fields) |->
                      Flatten([j \in 1..Len(argtable.fields) |->
                         IF table.fields[i].name = argtable.fields[j].name
                         THEN << <<table.fields[i].type, argtable.fields[j].type>> >>
                         ELSE <<>>])]))

\* the argument checked against the binding with the sides exchanged
check_param_inferred_reversed(inferred, arg) == is_assignable(arg, inferred, {})

\* check_param, lines 1135-1136: the generic parameter has a binding
check_param_inferred(inferred, arg) == is_assignable(inferred, arg, {})

RECURSIVE check_param_in(_, _, _, _, _, _)
RECURSIVE check_param_each(_, _, _, _, _)
RECURSIVE check_param_any(_, _, _, _, _, _)

\* the loops over a table parameter: the first pair that fails returns
check_param_each(pairs, genparams, nominals, inferred, calls) ==
    IF pairs = <<>> THEN ParamResult(Yes, inferred)
    ELSE IF pairs = <<Overflow>> THEN ParamResult(Overflow, inferred)
    ELSE With(check_param_in(Head(pairs)[1], Head(pairs)[2], genparams, nominals,
                             inferred, calls),
              LAMBDA c :
                IF c.r # Yes THEN c
                ELSE check_param_each(Tail(pairs), genparams, nominals,
                                      c.inferred, calls))

\* the loop over a Sum parameter: the first member that accepts returns
check_param_any(types, arg, genparams, nominals, inferred, calls) ==
    IF types = <<>> THEN ParamResult(No, inferred)
    ELSE With(check_param_in(Head(types), arg, genparams, nominals, inferred,
                             calls),
              LAMBDA c :
                IF c.r # No THEN c
                ELSE check_param_any(Tail(types), arg, genparams, nominals,
                                     c.inferred, calls))

\* check_param; calls is the set of calls of check_param in progress, and a
\* call that repeats one of them never returns
check_param_in(param, arg, genparams, nominals, inferred, calls) ==
    IF <<param, arg, inferred>> \in calls THEN ParamResult(Overflow, inferred)
    ELSE IF arg.tag = "DEFERRED"
    THEN check_param_in(param, reduce_deferred(arg, NoPackageType), genparams,
                        nominals, inferred, calls \cup {<<param, arg, inferred>>})
    ELSE
      CASE param.tag = "NOMINAL" ->
             LET same == {i \in 1..Len(nominals) : nominals[i] = param.defer.id}
                 i == CHOOSE k \in same : \A m \in same : k <= m
             IN  IF same = {}
                 THEN ParamResult(is_assignable(param, arg, {}), inferred)
                 ELSE IF inferred[i] # nullopt
                 THEN ParamResult(check_param_inferred(inferred[i], arg), inferred)
                 ELSE With(check_param_in(genparams[i].type, arg, genparams,
                                          nominals, inferred,
                                          calls \cup {<<param, arg, inferred>>}),
                           LAMBDA c :
                             IF c.r = Yes
                             THEN ParamResult(Yes, [c.inferred EXCEPT ![i] = arg])
                             ELSE c)
        [] param.tag = "TABLE" ->
             IF arg.tag # "TABLE" THEN ParamResult(No, inferred)
             ELSE check_param_each(table_pairs(param, arg), genparams, nominals,
                                   inferred, calls \cup {<<param, arg, inferred>>})
        [] param.tag = "SUM" ->
             check_param_any(param.types, arg, genparams, nominals, inferred,
                             calls \cup {<<param, arg, inferred>>})
        [] param.tag = "DEFERRED" ->
             check_param_in(reduce_deferred(param, NoPackageType), arg, genparams,
                            nominals, inferred,
                            calls \cup {<<param, arg, inferred>>})
        [] OTHER ->
             With(apply_genparams(inferred, nominals, NoPackageType, param),
                  LAMBDA reduced_param :
                    ParamResult(IF IsType(reduced_param)
                                THEN is_assignable(reduced_param, arg, {})
                                ELSE Overflow,
                                inferred))

\* check_param without inference: every parameter takes the default branch
check_param_uninferred(param, arg, genparams, nominals, inferred) ==
    With(apply_genparams(inferred, nominals, NoPackageType, param),
         LAMBDA reduced_param :
           ParamResult(IF IsType(reduced_param)
                       THEN is_assignable(reduced_param, arg, {})
                       ELSE Overflow,
                       inferred))

\* check_param as its callers call it
check_param(param, arg, genparams, nominals, inferred) ==
    check_param_in(param, arg, genparams, nominals, inferred, {})

\* <prefix>(<args>)
NFunctionCall(prefix, args) ==
    [kind |-> "NFunctionCall", prefix |-> prefix, args |-> args]

RECURSIVE NArgSeq_check(_, _, _)
\* NArgSeq::check
NArgSeq_check(args, cx, s) ==
    IF args = <<>> THEN cx
    ELSE NArgSeq_check(Tail(args), NExpr_check(Head(args), cx, s, nullptr), s)

\* the state of the loop over the parameters in NFunctionCall::check
CallState(cx, inferred) == [cx |-> cx, inferred |-> inferred]

RECURSIVE check_params(_, _, _, _, _)
\* NFunctionCall::check, lines 550-562, from parameter i on
check_params(i, rhs_, func, cx, inferred) ==
    IF i > Min(Len(rhs_), Len(func.params)) \/ cx.crashed
    THEN CallState(cx, inferred)
    ELSE With(check_param(func.params[i], rhs_[i], func.genparams,
                          func.nominals, inferred),
              LAMBDA c :
                check_params(
                  i + 1, rhs_, func,
                  IF c.r = Overflow THEN [cx EXCEPT !.crashed = TRUE]
                  ELSE IF c.r # Yes
                  THEN emplace_back(cx, CompileError(
                         <<to_string(c.r), "Invalid parameter", i - 1>>))
                  ELSE cx,
                  c.inferred))

\* NFunctionCall::check; the result holds the handler's state and the node's
\* cached_rettype
NFunctionCall_check(n, cx, s) ==
    With(NArgSeq_check(n.args, NExpr_check(n.prefix, cx, s, nullptr), s),
         LAMBDA c1 :
           With(NExpr_get_type(n.prefix, c1.scopes, s),
                LAMBDA prefixtype :
                  CASE prefixtype.tag = "ANY" ->
                         [cx |-> c1, cached_rettype |-> nullopt]
                    [] prefixtype.tag = "FUNCTION" ->
                         With([k \in 1..Len(n.args) |->
                                 NExpr_get_type(n.args[k], c1.scopes, s)],
                              LAMBDA rhs_ :
                                IF /\ Len(rhs_) > Len(prefixtype.params)
                                   /\ ~prefixtype.variadic
                                THEN [cx |-> emplace_back(c1, CompileError(
                                        <<"Too many arguments for non-variadic function">>)),
                                      cached_rettype |-> nullopt]
                                ELSE
                                  With(check_params(
                                         1,
                                         rhs_ \o [k \in 1..(Len(prefixtype.params) - Len(rhs_)) |->
                                                    make_luatype("NIL")],
                                         prefixtype, c1,
                                         [k \in 1..Len(prefixtype.genparams) |-> nullopt]),
                                       LAMBDA st :
                                         With(apply_genparams(st.inferred,
                                                prefixtype.nominals, NoPackageType,
                                                prefixtype.ret),
                                              LAMBDA rettype :
                                                [cx |-> [st.cx EXCEPT !.crashed =
                                                           @ \/ ~IsType(rettype)],
                                                 cached_rettype |-> rettype])))
                    [] OTHER ->
                         [cx |-> emplace_back(c1, CompileError(
                                   <<"Cannot call non-function type", prefixtype>>)),
                          cached_rettype |-> nullopt]))

\* NFunctionCall::get_type
NFunctionCall_get_type(cached_rettype) ==
    IF cached_rettype # nullopt THEN cached_rettype ELSE make_any

----------------------------------------------------------------------------
(* resolve_overload: the call of a value of a function, product or         *)
(* deferred type                                                           *)

\* the std::optional<Type> a resolve_overload returns and the notes after it
Resolved(type, notes) == [type |-> type, notes |-> notes]

RECURSIVE resolve_overload_params(_, _, _, _, _)
\* resolve_overload(const FunctionType&, ...), the loop over the parameters
\* from parameter i on (lines 552-566)
resolve_overload_params(i, func, args, notes, inferred) ==
    IF i > Len(func.params)
    THEN Resolved(apply_genparams(inferred, func.nominals, NoPackageType,
                                  func.ret),
                  notes)
    ELSE With(check_param(func.params[i],
                          IF i <= Len(args) THEN args[i] ELSE make_luatype("NIL"),
                          func.genparams, func.nominals, inferred),
              LAMBDA c :
                IF c.r = Overflow THEN Resolved(StackOverflow, notes)
                ELSE IF c.r # Yes
                THEN Resolved(nullopt,
                              Append(notes, <<"Invalid parameter", i - 1>>))
                ELSE resolve_overload_params(i + 1, func, args, notes,
                                             c.inferred))

\* resolve_overload(const FunctionType&, ...)
resolve_overload_Function(func, args, notes) ==
    IF Len(args) > Len(func.params) /\ ~func.variadic
    THEN Resolved(nullopt,
                  Append(notes, <<"Too many arguments for non-variadic function">>))
    ELSE resolve_overload_params(1, func, args, notes,
                                 [k \in 1..Len(func.genparams) |-> nullopt])

RECURSIVE resolve_overload(_, _, _)
RECURSIVE resolve_overload_components(_, _, _, _)

\* resolve_overload(const ProductType&, ...), the loop over the components
\* that remain, with all_notes collected so far
resolve_overload_components(types, args, notes, all_notes) ==
    IF types = <<>> THEN Resolved(nullopt, notes \o all_notes)
    ELSE With(resolve_overload(Head(types), args, <<>>),
              LAMBDA cur :
                IF cur.type # nullopt
                THEN Resolved(cur.type, notes \o cur.notes)
                ELSE resolve_overload_components(Tail(types), args, notes,
                                                 all_notes \o cur.notes))

\* resolve_overload on a Product with the components tried last to first
resolve_overload_Product_backwards(product, args, notes) ==
    resolve_overload_components(
      [i \in 1..Len(product.types) |->
         product.types[Len(product.types) + 1 - i]],
      args, notes, <<>>)

\* resolve_overload(const ProductType&, ...)
resolve_overload_Product(product, args, notes) ==
    resolve_overload_components(product.types, args, notes, <<>>)

\* resolve_overload(const Type&, ...): the switch on the tag
resolve_overload(type, args, notes) ==
    CASE type.tag = "ANY" -> Resolved(make_any, notes)
      [] type.tag = "FUNCTION" -> resolve_overload_Function(type, args, notes)
      [] type.tag = "PRODUCT" -> resolve_overload_Product(type, args, notes)
      [] type.tag = "DEFERRED" ->
           resolve_overload(entries[type.id + 1].type, args, notes)
      [] OTHER -> Resolved(nullopt, Append(notes, <<"Type cannot be called">>))

----------------------------------------------------------------------------
(* Statements that open scopes. The check of a block is a recursion in the *)
(* program; here the handler of a statement with a block is two steps: the *)
(* part up to the first statement of its block, which leaves the scopes it *)
(* created on the stack, and the part after the last one, which pops them. *)

\* global <name>
NGlobalVar(name) == [kind |-> "NGlobalVar", name |-> name]

\* for <name> = <begin>, <end> do
NForNumeric(name, begin, end) ==
    [kind |-> "NForNumeric", name |-> name, begin |-> begin, end |-> end]

\* for <name> in <expr> do
NForGeneric(name, expr) == [kind |-> "NForGeneric", name |-> name, expr |-> expr]

\* local function <name>(<params>), without generic parameters, return
\* annotation or `...`
NLocalFunction(name, params) ==
    [kind |-> "NLocalFunction", name |-> name, params |-> params]

\* return <expr>
NReturn(expr) == [kind |-> "NReturn", expr |-> expr]

\* NGlobalVar::check with one name and no expression
NGlobalVar_check(n, cx, s) ==
    With(NNameDecl_check(n.name, cx, s),
         LAMBDA c1 :
           IF get_type_of(c1.scopes, s, n.name.name) # nullptr
           THEN With(is_assignable(
                       get_type_of(c1.scopes, s, n.name.name),
                       NNameDecl_get_type(NNameDecl_checked(n.name, cx, s),
                                          c1.scopes, s),
                       {}),
                     LAMBDA r :
                       IF r = Overflow THEN [c1 EXCEPT !.crashed = TRUE]
                       ELSE IF r # Yes
                       THEN emplace_back(c1, CompileError(
                              <<"Global variable conflict", to_string(r)>>))
                       ELSE c1)
           ELSE [c1 EXCEPT !.scopes =
                   add_global_name(@, s, n.name.name,
                     NNameDecl_get_type(NNameDecl_checked(n.name, cx, s),
                                        c1.scopes, s))])

\* NBlock::check up to the first child: this_scope = Scope(&parent_scope)
NBlock_check(cx, s) == [cx EXCEPT !.scopes = Append(@, Scope(s))]

\* NForNumeric::check up to the first statement of the block
NForNumeric_check(n, cx, s) ==
    With(NExpr_check(n.end, NExpr_check(n.begin, cx, s, nullptr), s, nullptr),
         LAMBDA c1 :
           NBlock_check(
             [c1 EXCEPT !.scopes =
                add_name(Append(@, Scope_of(s, n)), Len(@) + 1, n.name, Number)],
             Len(c1.scopes) + 1))

\* NForGeneric::check up to the first statement of the block, with one name
\* and one expression
NForGeneric_check(n, cx, s) ==
    With(NExpr_check(
           n.expr,
           NNameDecl_check(
             n.name,
             IF get_type_of(cx.scopes, s, n.name.name) # nullptr
             THEN emplace_back(cx, CompileError_severity("WARNING",
                    <<"For-loop variable shadows name", n.name.name>>))
             ELSE cx,
             s),
           s, nullptr),
         LAMBDA c1 :
           NBlock_check(
             [c1 EXCEPT !.scopes =
                add_name(Append(@, Scope_of(s, n)), Len(@) + 1, n.name.name,
                         NNameDecl_get_type(NNameDecl_checked(n.name, cx, s),
                                            c1.scopes, s))],
             Len(c1.scopes) + 1))

RECURSIVE NFuncParams_check(_, _, _)
\* NFuncParams::check: the loop over the names that remain
NFuncParams_check(names, cx, s) ==
    IF names = <<>> THEN cx
    ELSE NFuncParams_check(
           Tail(names),
           NNameDecl_check(
             Head(names),
             IF get_type_of(cx.scopes, s, Head(names).name) # nullptr
             THEN emplace_back(cx, CompileError_severity("WARNING",
                    <<"Function parameter shadows name", Head(names).name>>))
             ELSE cx,
             s),
           s)

RECURSIVE NFuncParams_add_to_scope(_, _, _)
\* NFuncParams::add_to_scope of a parameter list that is not variadic
NFuncParams_add_to_scope(names, sc, s) ==
    IF names = <<>> THEN disable_dots(sc, s)
    ELSE NFuncParams_add_to_scope(
           Tail(names),
           add_name(sc, s, Head(names).name,
                    NNameDecl_get_type(Head(names), sc, s)),
           s)

\* NFuncParams::get_types
NFuncParams_get_types(names, sc, s) ==
    [i \in 1..Len(names) |-> NNameDecl_get_type(names[i], sc, s)]

\* FunctionBase::check up to the first statement of the block: setup_scope
\* and deduce_return_type (there is no return annotation)
FunctionBase_check(n, cx, s) ==
    With(NFuncParams_check(
           n.params,
           [cx EXCEPT !.scopes = Append(@, Scope_of(s, n))],
           Len(cx.scopes) + 1),
         LAMBDA c1 :
           NBlock_check(
             [c1 EXCEPT !.scopes =
                deduce_return_type(
                  disable_dots(
                    NFuncParams_add_to_scope(n.params, @, Len(cx.scopes) + 1),
                    Len(cx.scopes) + 1),
                  Len(cx.scopes) + 1)],
             Len(cx.scopes) + 1))

\* FunctionBase::check after the block: the deduced return type
FunctionBase_return_type(sc, s) ==
    IF get_return_type(sc, s, nullptr) # nullptr
    THEN get_return_type(sc, s, nullptr)
    ELSE Void

\* FunctionBase::get_type without generic parameters
FunctionBase_get_type(n, sc, s, rettype) ==
    make_function(<<>>, <<>>, NFuncParams_get_types(n.params, sc, s),
                  rettype, FALSE)

\* NLocalFunction::check after base.check: this_scope (position s) is gone
\* and the name is bound in parent_scope
NLocalFunction_check(n, cx, s) ==
    With(FunctionBase_get_type(n, cx.scopes, s,
                               FunctionBase_return_type(cx.scopes, s)),
         LAMBDA functype :
           With([cx EXCEPT !.scopes = SubSeq(@, 1, s - 1)],
                LAMBDA c1 :
                  IF get_type_of(c1.scopes, cx.scopes[s].parent, n.name) # nullptr
                  THEN With(is_assignable(
                              get_type_of(c1.scopes, cx.scopes[s].parent, n.name),
                              functype, {}),
                            LAMBDA r :
                              IF r = Overflow THEN [c1 EXCEPT !.crashed = TRUE]
                              ELSE IF r # Yes
                              THEN emplace_back(c1, CompileError(to_string(r)))
                              ELSE c1)
                  ELSE [c1 EXCEPT !.scopes =
                          add_name(@, cx.scopes[s].parent, n.name, functype)]))

\* NReturn::check with one expression; ub is what a call through a null
\* parent produces
NReturn_check(n, cx, s, ub) ==
    With(NExpr_check(n.expr, cx, s, nullptr),
         LAMBDA c1 :
           With(get_fixed_return_type(c1.scopes, s, ub),
                LAMBDA rettype :
                  IF rettype = Crash THEN [c1 EXCEPT !.crashed = TRUE]
                  ELSE IF rettype # nullptr
                  THEN With(is_assignable(
                              rettype,
                              make_reduced_tuple(
                                <<NExpr_get_type(n.expr, c1.scopes, s)>>),
                              {}),
                            LAMBDA r :
                              IF r = Overflow THEN [c1 EXCEPT !.crashed = TRUE]
                              ELSE IF r # Yes
                              THEN emplace_back(c1, CompileError(to_string(r)))
                              ELSE c1)
                  ELSE With(add_return_type(
                              c1.scopes, s,
                              make_reduced_tuple(
                                <<NExpr_get_type(n.expr, c1.scopes, s)>>),
                              ub),
                            LAMBDA sc :
                              IF sc = Crash THEN [c1 EXCEPT !.crashed = TRUE]
                              ELSE [c1 EXCEPT !.scopes = sc])))

\* tlua_get_type up to the first statement of the module: the module's
\* scope is a child of global_scope (the root, position 1) and check()
\* hands the chunk a new error vector
tlua_get_type(cx) ==
    NBlock_check(
      [cx EXCEPT !.scopes =
         deduce_return_type(
           Append(@, Scope_of(1, [kind |-> "tlua_get_type"])),
           Len(@) + 1),
         !.errors = <<>>],
      Len(cx.scopes) + 1)

\* tlua_get_type after check(): *result, which install_require's lambda
\* initialised to Any; sc[s] is the module's scope and errors its diagnostics
tlua_get_type_result(sc, s, module_errors) ==
    IF module_errors = <<>>
    THEN IF get_return_type(sc, s, nullptr) # nullptr
         THEN get_return_type(sc, s, nullptr)
         ELSE Void
    ELSE make_any

----------------------------------------------------------------------------
(* A local function checked with its body: the recursion of NBlock::check  *)
(* over the statements of the block, which are `return` statements and     *)
(* local functions                                                         *)

\* local function <name>(<params>) [: <ret>] <block> end; ret is NoNode when
\* absent and block is the sequence of the statements
NLocalFunction_block(name, params, ret, block) ==
    [kind |-> "NLocalFunction", name |-> name, params |-> params,
     ret |-> ret, block |-> block]

RECURSIVE NBlock_check_children(_, _, _)
RECURSIVE NLocalFunction_check_block(_, _, _)

\* the loop of NBlock::check over the children that remain, in this_scope s
NBlock_check_children(children, cx, s) ==
    IF children = <<>> \/ cx.crashed THEN cx
    ELSE NBlock_check_children(
           Tail(children),
           IF Head(children).kind = "NReturn"
           THEN NReturn_check(Head(children), cx, s, nullptr)
           ELSE NLocalFunction_check_block(Head(children), cx, s),
           s)

\* NLocalFunction::check: FunctionBase::check with the block (the scope of
\* the function is at Len(cx.scopes) + 1, the scope of its block above it),
\* then the binding of the name
NLocalFunction_check_block(n, cx, s) ==
    With(FunctionBase_check(n, cx, s),
         LAMBDA c1 :
           With(NBlock_check_children(
                  n.block,
                  IF n.ret # NoNode
                  THEN [NType_check(n.ret, c1, Len(cx.scopes) + 1) EXCEPT
                          !.scopes = set_return_type(
                                       @, Len(cx.scopes) + 1,
                                       NType_type(n.ret, c1.scopes,
                                                  Len(cx.scopes) + 1))]
                  ELSE c1,
                  Len(cx.scopes) + 2),
                LAMBDA c2 :
                  IF c2.crashed THEN c2
                  ELSE NLocalFunction_check(
                         n,
                         [c2 EXCEPT !.scopes = SubSeq(@, 1, Len(cx.scopes) + 1)],
                         Len(cx.scopes) + 1)))

----------------------------------------------------------------------------
(* Assignment with several targets and values; targets are identifiers,    *)
(* field accesses and subscripts. Method definitions `function t:m() end`. *)

\* <prefix>[<subscript>] with an identifier as prefix
NSubscript(prefix, subscript) ==
    [kind |-> "NSubscript", prefix |-> prefix, subscript |-> subscript]

\* <vars> = <exprs>
NAssignment_list(vars_, exprs) ==
    [kind |-> "NAssignment", vars |-> vars_, exprs |-> exprs]

\* function <expr>:<name>() end with an identifier as expr
NSelfFunction(expr, name) ==
    [kind |-> "NSelfFunction", expr |-> expr, name |-> name, params |-> <<>>]

\* interface <name> <type>
NInterface(name, type) == [kind |-> "NInterface", name |-> name, type |-> type]

\* a std::optional<Type> with the notes collected on the way
Found(type, notes) == [type |-> type, notes |-> notes]

RECURSIVE get_index_type(_, _, _, _)
\* get_index_type for the types a prefix has here: Any, Table, Deferred and
\* the tags of the default branch
get_index_type(es, type, key, notes) ==
    CASE type.tag = "ANY" -> Found(make_any, notes)
      [] type.tag = "TABLE" ->
           With({i \in 1..Len(type.indexes) :
                   is_assignable(type.indexes[i].key, key, {}) = Yes},
                LAMBDA hits :
                  IF hits = {} THEN Found(nullopt, notes)
                  ELSE Found(type.indexes[CHOOSE i \in hits :
                                            \A j \in hits : i <= j].val,
                             notes))
      [] type.tag = "DEFERRED" ->
           get_index_type(es, es[type.id + 1].type, key, notes)
      [] OTHER -> Found(nullopt, Append(notes, <<"Type has no indexes">>))

RECURSIVE get_field_type(_, _, _, _)
\* get_field_type for the types a prefix has here; the metatable map of the
\* root scope is empty
get_field_type(es, type, key, notes) ==
    CASE type.tag = "ANY" -> Found(make_any, notes)
      [] type.tag = "LUATYPE" ->
           Found(nullopt, Append(notes, <<"LuaType has no metatable">>))
      [] type.tag = "LITERAL" ->
           Found(nullopt, Append(notes, <<"LuaType has no metatable">>))
      [] type.tag = "TABLE" ->
           IF find_field(type.fields, key) # 0
           THEN Found(type.fields[find_field(type.fields, key)].type, notes)
           ELSE get_index_type(es, type, String, notes)
      [] type.tag = "DEFERRED" ->
           With(get_field_type(es, es[type.id + 1].type, key, notes),
                LAMBDA r :
                  IF r.notes # <<>>
                  THEN Found(r.type, Append(r.notes,
                               <<"In deferred type", es[type.id + 1].name>>))
                  ELSE r)
      [] OTHER -> Found(nullopt, Append(notes, <<"Type has no fields">>))

\* the tests before narrow_field and narrow_index, with the narrowing flag
\* left out
narrows_table_unflagged(es, type) ==
    /\ type.tag = "DEFERRED"
    /\ es[type.id + 1].type.tag = "TABLE"

\* the tests before narrow_field and narrow_index: the type is a Deferred,
\* its entry is in narrowing mode and holds a Table
narrows_table(es, type) ==
    /\ type.tag = "DEFERRED"
    /\ es[type.id + 1].narrowing
    /\ es[type.id + 1].type.tag = "TABLE"

\* the message check_common builds: the notes, the last one first
Reverse(notes) == [i \in 1..Len(notes) |-> notes[Len(notes) + 1 - i]]

\* what a check of a target leaves: the state and the type its get_type
\* returns afterwards
Target(cx, type) == [cx |-> cx, type |-> type]

\* NTableAccess::check_common and NSubscript::check_common, after the lookup r
check_common(r, missing, cx) ==
    With(IF r.type = nullopt THEN Append(r.notes, missing) ELSE r.notes,
         LAMBDA notes :
           Target(IF notes # <<>>
                  THEN emplace_back(cx, CompileError(Reverse(notes)))
                  ELSE cx,
                  IF r.type = nullopt THEN make_any ELSE r.type))

\* NIdent::check and NIdent::check_expect of a target, then its get_type
NIdent_target(n, expected, cx, s) ==
    With(IF expected = nullopt THEN NIdent_check(n, cx, s)
         ELSE NIdent_check_expect(n, expected, cx, s),
         LAMBDA c1 : Target(c1, NExpr_get_type(n, c1.scopes, s)))

\* NTableAccess::check (expected is nullopt) and NTableAccess::check_expect
NTableAccess_target(n, expected, cx, s) ==
    With(NIdent_check(n.prefix, cx, s),
         LAMBDA c1 :
           With(NExpr_get_type(n.prefix, c1.scopes, s),
                LAMBDA prefixtype :
                  IF /\ expected # nullopt
                     /\ narrows_table(c1.entries, prefixtype)
                  THEN With(narrow_field(c1.entries[prefixtype.id + 1].type,
                                         n.name, expected),
                            LAMBDA narrowed_type :
                              IF IsType(narrowed_type)
                              THEN Target([c1 EXCEPT !.entries =
                                             set(@, prefixtype.id, narrowed_type)],
                                          make_any)
                              ELSE Target([c1 EXCEPT !.crashed = TRUE], make_any))
                  ELSE check_common(
                         get_field_type(c1.entries, prefixtype, n.name, <<>>),
                         <<"Could not find field", n.name>>, c1)))

\* NSubscript::check (expected is nullopt) and NSubscript::check_expect; the
\* subscript is a literal
NSubscript_target(n, expected, cx, s) ==
    With(NExpr_check(n.subscript, NIdent_check(n.prefix, cx, s), s, nullptr),
         LAMBDA c1 :
           With(NExpr_get_type(n.prefix, c1.scopes, s),
                LAMBDA prefixtype :
                  IF /\ expected # nullopt
                     /\ narrows_table(c1.entries, prefixtype)
                  THEN With(narrow_index(c1.entries[prefixtype.id + 1].type,
                                         NExpr_get_type(n.subscript, c1.scopes, s),
                                         expected),
                            LAMBDA narrowed_type :
                              IF IsType(narrowed_type)
                              THEN Target([c1 EXCEPT !.entries =
                                             set(@, prefixtype.id, narrowed_type)],
                                          make_any)
                              ELSE Target([c1 EXCEPT !.crashed = TRUE], make_any))
                  ELSE check_common(
                         get_index_type(c1.entries, prefixtype,
                                        NExpr_get_type(n.subscript, c1.scopes, s),
                                        <<>>),
                         <<"Could not find index">>, c1)))

\* var->check_expect(parent_scope, rhs[i], errors) or, with expected nullopt,
\* var->check(parent_scope, errors)
NExpr_target(var, expected, cx, s) ==
    CASE var.kind = "NTableAccess" -> NTableAccess_target(var, expected, cx, s)
      [] var.kind = "NSubscript" -> NSubscript_target(var, expected, cx, s)
      [] OTHER -> NIdent_target(var, expected, cx, s)

RECURSIVE NAssignment_exprs(_, _, _, _)
\* NAssignment::check, the loop over exprs: the state and the vector rhs
NAssignment_exprs(exprs, cx, s, rhs_) ==
    IF exprs = <<>> \/ cx.crashed THEN [cx |-> cx, rhs |-> rhs_]
    ELSE With(NExpr_check(Head(exprs), cx, s, nullptr),
              LAMBDA c1 :
                NAssignment_exprs(Tail(exprs), c1, s,
                                  Append(rhs_, NExpr_get_type(Head(exprs),
                                                              c1.scopes, s))))

RECURSIVE NAssignment_vars(_, _, _, _, _)
\* NAssignment::check, the loop over vars: the state and the vector lhs
NAssignment_vars(vars_, rhs_, cx, s, lhs_) ==
    IF Len(lhs_) = Len(vars_) \/ cx.crashed THEN [cx |-> cx, lhs |-> lhs_]
    ELSE With(NExpr_target(vars_[Len(lhs_) + 1],
                           IF Len(lhs_) < Len(rhs_) THEN rhs_[Len(lhs_) + 1]
                           ELSE nullopt,
                           cx, s),
              LAMBDA t :
                NAssignment_vars(vars_, rhs_, t.cx, s, Append(lhs_, t.type)))

\* NAssignment::check up to the call of is_assignable: the state and the
\* reduced tuples
NAssignment_check(n, cx, s) ==
    With(NAssignment_exprs(n.exprs, cx, s, <<>>),
         LAMBDA e :
           With(NAssignment_vars(n.vars, e.rhs, e.cx, s, <<>>),
                LAMBDA v :
                  [cx |-> v.cx,
                   lhstype |-> make_reduced_tuple(v.lhs),
                   rhstype |-> make_reduced_tuple(e.rhs)]))

\* NInterface::check
NInterface_check(n, cx, s) ==
    With([(IF Scope_get_type(cx.scopes, s, n.name) # nullptr
           THEN emplace_back(cx, CompileError_severity("WARNING",
                  <<"Interface", n.name, "shadows existing type">>))
           ELSE cx)
            EXCEPT !.entries = reserve(@, n.name),
                   !.scopes = add_type(@, s, n.name,
                                make_deferred(reserved_id(reserve(cx.entries,
                                                                  n.name)),
                                              <<>>))],
         LAMBDA c1 :
           With(NType_check(n.type, c1, s),
                LAMBDA c2 :
                  [c2 EXCEPT !.entries =
                     set(@, reserved_id(c1.entries),
                         NType_type(NType_checked(n.type, c1, s), c2.scopes, s))]))

\* NSelfFunction::check of a method without parameters, return annotation
\* or statements, up to the call of is_assignable: the state, the type of
\* the function and the field found for the name
NSelfFunction_check(n, cx, s) ==
    With(NIdent_check(n.expr, cx, s),
         LAMBDA c1 :
           With(NExpr_get_type(n.expr, c1.scopes, s),
                LAMBDA self_type :
                  With(make_function(<<>>, <<>>, <<self_type>>, Void, FALSE),
                       LAMBDA functype :
                         With(IF narrows_table(c1.entries, self_type)
                              THEN With(narrow_field(
                                          c1.entries[self_type.id + 1].type,
                                          n.name, functype),
                                        LAMBDA narrowed_type :
                                          IF IsType(narrowed_type)
                                          THEN [c1 EXCEPT !.entries =
                                                  set(@, self_type.id,
                                                      narrowed_type)]
                                          ELSE [c1 EXCEPT !.crashed = TRUE])
                              ELSE c1,
                              LAMBDA c2 :
                                [cx |-> c2,
                                 functype |-> functype,
                                 fieldtype |-> get_field_type(
                                                 c2.entries, self_type, n.name,
                                                 <<>>)]))))

----------------------------------------------------------------------------
(* The check of a chunk: CheckInit is main's set-up at the point where     *)
(* NBlock::check has created the chunk's scope; every action is the check  *)
(* of one statement in the innermost scope alive.                          *)

\* number of statements checked in one run
MaxStatements == 3

Names == {"x", "y"}

One == NNumberLiteral(<<"1">>)

Hello == NStringLiteral("\"", "hello")

\* <T>(x: number): T
GenericOpt ==
    make_function(<<NameType("T", make_any)>>, <<NominalId>>,
                  <<Number>>, make_nominal(NominalId), FALSE)

\* the root scope of main after enable_basic_types(), with the generic
\* functions `id` and `opt` bound as a library import would bind them
RootScope ==
    [Scope_root EXCEPT !.types = enable_basic_types,
                       !.names = insert_or_assign(
                                   insert_or_assign(NoNames, "id", GenericId),
                                   "opt", GenericOpt)]

CheckInit ==
    /\ entries = InitEntries
    /\ scopes = <<RootScope, Scope(1)>>
    /\ errors = << <<>> >>
    /\ steps = 0
    /\ op = "check"
    /\ yes = NotCalled
    /\ result = NoType
    /\ lhs = Void
    /\ rhs = Void
    /\ node = NoNode

\* the innermost scope alive: the parent_scope of the statement checked next
Current == Len(scopes)

\* the state the next handler starts from
Here == Cx(scopes, entries, errors[Len(errors)])

Running == op \notin {"init", "crashed"} /\ steps < MaxStatements

\* the handler did not return
Crashed(n) ==
    /\ op' = "crashed"
    /\ node' = n
    /\ steps' = steps + 1
    /\ UNCHANGED <<entries, lhs, rhs, yes, result, scopes, errors>>

\* the handler of statement n returned, leaving cx
Checked(name, n, cx) ==
    /\ op' = name
    /\ node' = n
    /\ steps' = steps + 1
    /\ entries' = cx.entries
    /\ scopes' = cx.scopes
    /\ errors' = [errors EXCEPT ![Len(errors)] = cx.errors]

Done(name, n, cx) ==
    IF cx.crashed THEN Crashed(n)
    ELSE Checked(name, n, cx) /\ UNCHANGED <<lhs, rhs, yes, result>>

\* the initialisers and annotations of the local declarations
\* local x = 1, local x, local x = y, local y = ...
LocalVars ==
    {NLocalVar(NNameDecl("x", NoNode), e) : e \in {One, NoNode, NIdent("y")}}
    \cup {NLocalVar(NNameDecl("y", NoNode), NDots)}

\* { a: number; a: string }, { a: number; a: string; a: nil } and
\* { a: number; b: string }
TableTypes ==
    {NTypeTable(<<NFieldDecl("a", NTypeName("number")),
                  NFieldDecl("a", NTypeName("string"))>>),
     NTypeTable(<<NFieldDecl("a", NTypeName("number")),
                  NFieldDecl("a", NTypeName("string")),
                  NFieldDecl("a", NTypeName("nil"))>>),
     NTypeTable(<<NFieldDecl("a", NTypeName("number")),
                  NFieldDecl("b", NTypeName("string"))>>)}

\* {}, { a = 1, a = "hello" } and { a = 1, b = "hello" }
TableConstructors ==
    {NTableConstructor(<<>>),
     NTableConstructor(<<NFieldNamed("a", One), NFieldNamed("a", Hello)>>),
     NTableConstructor(<<NFieldNamed("a", One), NFieldNamed("b", Hello)>>)}

\* local y : <table type> and local y = <table constructor>
TableLocalVars ==
    {NLocalVar(NNameDecl("y", t), NoNode) : t \in TableTypes}
    \cup {NLocalVar(NNameDecl("y", NoNode), e) : e \in TableConstructors}

\* the outcomes of the undefined call the check of e may make
Undefined(e) == IF e = NDots THEN UndefinedResults ELSE {nullptr}

\* NLocalVar::check of one of the declarations
LocalVarOf(declarations) ==
    /\ Running
    /\ \E n \in declarations : \E ub \in Undefined(n.expr) :
          Done("NLocalVar", n, NLocalVar_check(n, Here, Current, ub))

LocalVar == LocalVarOf(LocalVars)

TableLocalVar == LocalVarOf(TableLocalVars)

\* x = "hello", x = y
Assignments == {NAssignment(NIdent("x"), e) : e \in {Hello, NIdent("y")}}

\* y.a = 1, y.a = "hello"
TableAssignments ==
    {NAssignment(NTableAccess(NIdent("y"), "a"), e) : e \in {One, Hello}}

\* NAssignment::check with one variable and one expression
AssignmentOf(assignments) ==
    /\ Running
    /\ \E n \in assignments :
          /\ n.var.kind = "NTableAccess" => Narrows(n.var, Here, Current)
          /\ With(NExpr_check(n.expr, Here, Current, nullptr),
               LAMBDA c1 :
                 With(NExpr_check_expect(
                        n.var, NExpr_get_type(n.expr, c1.scopes, Current),
                        c1, Current),
                      LAMBDA c2 :
                        IF c2.crashed THEN Crashed(n)
                        ELSE
                          /\ entries' = c2.entries
                          /\ scopes' = c2.scopes
                          /\ lhs' = make_reduced_tuple(
                                      <<Var_get_type(n.var, c2.scopes, Current)>>)
                          /\ rhs' = make_reduced_tuple(
                                      <<NExpr_get_type(n.expr, c1.scopes, Current)>>)
                          /\ yes' = is_assignable(lhs, rhs, {})'
                          /\ errors' =
                               [errors EXCEPT ![Len(errors)] =
                                  IF yes' # Yes
                                  THEN Append(c2.errors, CompileError(to_string(yes')))
                                  ELSE c2.errors]
                          /\ op' = IF yes' = Overflow THEN "crashed"
                                   ELSE "NAssignment"
                          /\ node' = n
                          /\ steps' = steps + 1
                          /\ UNCHANGED result))

Assignment == AssignmentOf(Assignments)

TableAssignment == AssignmentOf(TableAssignments)

FortyTwo == NNumberLiteral(<<"4", "2">>)

Calls ==
    {NFunctionCall(NIdent(f), args) :
        f \in {"id", "opt"},
        args \in {<<FortyTwo>>, <<NIdent("x")>>, <<FortyTwo, Hello>>}}

\* an expression statement <prefix>(<args>): NFunctionCall::check, and the
\* type NFunctionCall::get_type then gives the call
Call ==
    /\ Running
    /\ \E n \in Calls :
          With(NFunctionCall_check(n, Here, Current),
               LAMBDA c :
                 IF c.cx.crashed THEN Crashed(n)
                 ELSE /\ Checked("NFunctionCall", n, c.cx)
                      /\ result' = NFunctionCall_get_type(c.cached_rettype)
                      /\ UNCHANGED <<lhs, rhs, yes>>)

----------------------------------------------------------------------------
(* The statements that open and close scopes, checked in the innermost     *)
(* scope alive *)

\* global x, global y
GlobalVars == {NGlobalVar(NNameDecl(n, NoNode)) : n \in Names}

\* NGlobalVar::check
GlobalVar ==
    /\ Running
    /\ \E n \in GlobalVars :
          Done("NGlobalVar", n, NGlobalVar_check(n, Here, Current))

\* for x = 1, 1 do
ForNumeric ==
    /\ Running
    /\ Done("NForNumeric", NForNumeric("x", One, One),
            NForNumeric_check(NForNumeric("x", One, One), Here, Current))

\* for x in y do
ForGeneric ==
    /\ Running
    /\ Done("NForGeneric", NForGeneric(NNameDecl("x", NoNode), NIdent("y")),
            NForGeneric_check(
              NForGeneric(NNameDecl("x", NoNode), NIdent("y")), Here, Current))

\* local function f(x)
LocalFunction ==
    /\ Running
    /\ Done("FunctionBase", NLocalFunction("f", <<NNameDecl("x", NoNode)>>),
            FunctionBase_check(
              NLocalFunction("f", <<NNameDecl("x", NoNode)>>), Here, Current))

\* return 1, return "hello"
Return ==
    /\ Running
    /\ \E e \in {One, Hello} : \E ub \in UndefinedResults :
          Done("NReturn", NReturn(e), NReturn_check(NReturn(e), Here, Current, ub))

\* the handler whose block the innermost scope belongs to
Owner == scopes[Current - 1].owner

\* the innermost scope is the block of a statement of the chunk
InBlock == Current > 2 /\ scopes[Current].owner.kind = "NBlock"

\* a module is being checked
InModule == \E k \in 1..Len(scopes) : scopes[k].owner.kind = "tlua_get_type"

\* `end` of a for loop: NBlock::check and the loop's check return
EndFor ==
    /\ Running
    /\ InBlock
    /\ Owner.kind \in {"NForNumeric", "NForGeneric"}
    /\ Done("end", Owner, [Here EXCEPT !.scopes = SubSeq(@, 1, Current - 2)])

\* `end` of a local function: the rest of NLocalFunction::check
EndFunction ==
    /\ Running
    /\ InBlock
    /\ Owner.kind = "NLocalFunction"
    /\ Done("NLocalFunction", Owner,
            NLocalFunction_check(
              Owner, [Here EXCEPT !.scopes = SubSeq(@, 1, Current - 1)],
              Current - 1))

\* the require resolver is called with the source of a module (by the check
\* of a call whose return type is $require(...)): tlua_get_type begins
Require ==
    /\ Running
    /\ ~InModule
    /\ op' = "tlua_get_type"
    /\ node' = NoNode
    /\ steps' = steps + 1
    /\ scopes' = tlua_get_type(Here).scopes
    /\ errors' = Append(errors, tlua_get_type(Here).errors)
    /\ UNCHANGED <<entries, lhs, rhs, yes, result>>

\* the end of the module's source: tlua_get_type returns
EndModule ==
    /\ Running
    /\ InBlock
    /\ Owner.kind = "tlua_get_type"
    /\ op' = "require"
    /\ node' = NoNode
    /\ steps' = steps + 1
    /\ result' = tlua_get_type_result(SubSeq(scopes, 1, Current - 1), Current - 1,
                                      errors[Len(errors)])
    /\ scopes' = SubSeq(scopes, 1, Current - 2)
    /\ errors' = SubSeq(errors, 1, Len(errors) - 1)
    /\ UNCHANGED <<entries, lhs, rhs, yes>>

\* the statements of the body of a local function: return 1,
\* return "hello", and the nested functions
\* local function g() return "hello" end and
\* local function g(): number return 1 end
BodyStatements ==
    {NReturn(One), NReturn(Hello),
     NLocalFunction_block("g", <<>>, NoNode, <<NReturn(Hello)>>),
     NLocalFunction_block("g", <<>>, NTypeName("number"), <<NReturn(One)>>)}

\* the bodies of at most two statements
Bodies ==
    {<<>>} \cup {<<a>> : a \in BodyStatements}
    \cup {<<a, b>> : a \in BodyStatements, b \in BodyStatements}

\* local function f(x) <body> end, local function y(x) <body> end
LocalFunctions ==
    {NLocalFunction_block(name, <<NNameDecl("x", NoNode)>>, NoNode, body) :
        name \in {"f", "y"}, body \in Bodies}

\* NLocalFunction::check, from the declaration to the `end` of the function
LocalFunctionBlock ==
    /\ Running
    /\ \E n \in LocalFunctions :
          Done("NLocalFunction", n, NLocalFunction_check_block(n, Here, Current))

----------------------------------------------------------------------------
(* Assignments to identifiers, fields and subscripts of fixed and of        *)
(* narrowing entries; method definitions                                   *)

\* interface P { a: number }
Interfaces ==
    {NInterface("P", NTypeTable(<<NFieldDecl("a", NTypeName("number"))>>))}

\* local x : P, local y : P, local x = 1, local y = {}
TargetLocalVars ==
    {NLocalVar(NNameDecl(n, NTypeName("P")), NoNode) : n \in Names}
    \cup {NLocalVar(NNameDecl("x", NoNode), One),
          NLocalVar(NNameDecl("y", NoNode), NTableConstructor(<<>>))}

\* x, y, y.a, y[1]
Targets ==
    {NIdent("x"), NIdent("y"), NTableAccess(NIdent("y"), "a"),
     NSubscript(NIdent("y"), One)}

\* <target> = 1, <target> = "hello"
TargetAssignments ==
    {NAssignment_list(<<v>>, <<e>>) : v \in Targets, e \in {One, Hello}}

\* function y:m() end
SelfFunctions == {NSelfFunction(NIdent("y"), "m")}

\* the call of is_assignable that ends a handler, on the state cx it has
\* left so far, and the error it reports
Assigned(name, n, cx, l, r) ==
    IF cx.crashed THEN Crashed(n)
    ELSE /\ entries' = cx.entries
         /\ scopes' = cx.scopes
         /\ lhs' = l
         /\ rhs' = r
         /\ yes' = is_assignable(lhs, rhs, {})'
         /\ errors' = [errors EXCEPT ![Len(errors)] =
                          IF yes' # Yes
                          THEN Append(cx.errors, CompileError(to_string(yes')))
                          ELSE cx.errors]
         /\ op' = IF yes' = Overflow THEN "crashed" ELSE name
         /\ node' = n
         /\ steps' = steps + 1
         /\ UNCHANGED result

\* NAssignment::check of one of the assignments
AssignmentListOf(assignments) ==
    /\ Running
    /\ \E n \in assignments :
          With(NAssignment_check(n, Here, Current),
               LAMBDA a : Assigned("NAssignment", n, a.cx, a.lhstype, a.rhstype))

TargetAssignment == AssignmentListOf(TargetAssignments)

\* NInterface::check
Interface ==
    /\ Running
    /\ \E n \in Interfaces : Done("NInterface", n, NInterface_check(n, Here, Current))

TargetLocalVar == LocalVarOf(TargetLocalVars)

\* NSelfFunction::check
SelfFunction ==
    /\ Running
    /\ \E n \in SelfFunctions :
          With(NSelfFunction_check(n, Here, Current),
               LAMBDA m :
                 IF m.fieldtype.type # nullopt
                 THEN Assigned("NSelfFunction", n, m.cx, m.fieldtype.type,
                               m.functype)
                 ELSE Done("NSelfFunction", n,
                           IF m.fieldtype.notes # <<>>
                           THEN emplace_back(m.cx, CompileError(
                                  <<"Failed to deduce field type">>
                                  \o Reverse(m.fieldtype.notes)))
                           ELSE m.cx))

\* local x, local y, local x : number, local y : number
ArityLocalVars ==
    {NLocalVar(NNameDecl(n, t), NoNode) :
        n \in Names, t \in {NoNode, NTypeName("number")}}

\* x; y; x, y; y, x; x, y, x
Vars ==
    {<<NIdent("x")>>, <<NIdent("y")>>, <<NIdent("x"), NIdent("y")>>,
     <<NIdent("y"), NIdent("x")>>, <<NIdent("x"), NIdent("y"), NIdent("x")>>}

\* 1; "hello"; 1, "hello"; 1, 1; 1, "hello", 1
Exprs ==
    {<<One>>, <<Hello>>, <<One, Hello>>, <<One, One>>, <<One, Hello, One>>}

\* <vars> = <exprs>
ArityAssignments == {NAssignment_list(v, e) : v \in Vars, e \in Exprs}

ArityLocalVar == LocalVarOf(ArityLocalVars)

ArityAssignment == AssignmentListOf(ArityAssignments)

\* local x = 1, local y = 1, local y = "hello"
NarrowLocalVars ==
    {NLocalVar(NNameDecl("x", NoNode), One),
     NLocalVar(NNameDecl("y", NoNode), One),
     NLocalVar(NNameDecl("y", NoNode), Hello)}

\* x = <expr> and y = <expr> with 1, "hello", 42, x and y as <expr>
NarrowAssignments ==
    {NAssignment(NIdent(n), e) :
        n \in Names, e \in {One, Hello, FortyTwo, NIdent("x"), NIdent("y")}}

NarrowLocalVar == LocalVarOf(NarrowLocalVars)

NarrowAssignment == AssignmentOf(NarrowAssignments)

----------------------------------------------------------------------------
(* Two interfaces that refer to themselves: `Node`, and a second one with  *)
(* the same declaration, reserved after the initial entries                *)

\* the id reserve returns for the second interface
OtherId == Len(InitEntries)

\* interface Other { next: Other }
CycleEntries ==
    set(reserve(InitEntries, "Other"), OtherId,
        make_table(<<>>, <<NameType("next", make_deferred(OtherId, <<>>))>>))

CycleInit ==
    /\ entries = CycleEntries
    /\ scopes = <<>>
    /\ errors = <<>>
    /\ steps = 0
    /\ op = "init"
    /\ yes = NotCalled
    /\ result = NoType
    /\ node = NoNode
    /\ \E pair \in (Universe \cup {make_deferred(OtherId, <<>>)})
                     \X (Universe \cup {make_deferred(OtherId, <<>>)}) :
          lhs = pair[1] /\ rhs = pair[2]

----------------------------------------------------------------------------
(* check_param on its own: one call per behaviour, for a function with the *)
(* generic parameter T (nominal id NominalId) or with none                 *)

\* the nominal type of the generic parameter T
NominalT == make_nominal(NominalId)

\* { a: T, b: number } and { a: T, b: number } | T
GenericParams ==
    {make_table(<<>>, <<NameType("a", NominalT), NameType("b", Number)>>),
     SumType(<<make_table(<<>>, <<NameType("a", NominalT), NameType("b", Number)>>),
               NominalT>>)}

\* the declared bounds of T: none (any), number, { a: number }
Bounds == {make_any, Number, make_table(<<>>, <<NameType("a", Number)>>)}

\* genparams_inferred[0] before the call
Inferreds == {nullopt, Number, IntLit(1), String}

ParamInit ==
    /\ entries = InitEntries
    /\ scopes = <<>>
    /\ errors = <<>>
    /\ steps = 0
    /\ op = "init"
    /\ yes = NotCalled
    /\ result = NoType
    /\ node = NoNode
    /\ lhs \in Universe \cup GenericParams
    /\ rhs \in Universe

\* the arguments of a call of check_param besides param and arg
ParamCall(genparams, nominals, inferred) ==
    [kind |-> "check_param", genparams |-> genparams, nominals |-> nominals,
     inferred |-> inferred]

\* check_param(lhs, rhs, ...) returned (or did not): yes is its result and
\* node.inferred is genparams_inferred after the call
CheckedParam(call, c) ==
    /\ op = "init"
    /\ op' = "check_param"
    /\ yes' = c.r
    /\ node' = [call EXCEPT !.inferred = c.inferred]
    /\ result' = IF call.inferred = <<>> THEN NoType ELSE call.inferred[1]
    /\ UNCHANGED <<entries, lhs, rhs, scopes, errors, steps>>

\* check_param for a parameter of a function <T: bound>(...)
CheckParamGeneric ==
    \E bound \in Bounds : \E inferred \in Inferreds :
       CheckedParam(
         ParamCall(<<NameType("T", bound)>>, <<NominalId>>, <<inferred>>),
         check_param(lhs, rhs, <<NameType("T", bound)>>, <<NominalId>>,
                     <<inferred>>))

\* check_param for a parameter of a function without generic parameters
CheckParamPlain ==
    CheckedParam(ParamCall(<<>>, <<>>, <<>>),
                 check_param(lhs, rhs, <<>>, <<>>, <<>>))

----------------------------------------------------------------------------
(* Calls of a product: the components and the arguments *)

\* (a: number): number, (a: string, b: string): string, <T>(x: T): T, any
\* and number, which cannot be called
Components ==
    {make_function(<<>>, <<>>, <<Number>>, Number, FALSE),
     make_function(<<>>, <<>>, <<String, String>>, String, FALSE),
     GenericId, make_any, Number}

\* the products of one, two or three components
Overloads ==
    {ProductType(<<a>>) : a \in Components}
    \cup {ProductType(<<a, b>>) : a \in Components, b \in Components}
    \cup {ProductType(<<a, b, c>>) :
            a \in Components, b \in Components, c \in Components}

\* no argument, one or two of number and string
Arguments ==
    {<<>>} \cup {<<a>> : a \in {Number, String}}
    \cup {<<a, b>> : a \in {Number, String}, b \in {Number, String}}

\* lhs is the type called, rhs holds the arguments
OverloadInit ==
    /\ entries = InitEntries
    /\ scopes = <<>>
    /\ errors = <<>>
    /\ steps = 0
    /\ op = "init"
    /\ yes = NotCalled
    /\ result = NoType
    /\ node = NoNode
    /\ lhs \in Overloads
    /\ \E args \in Arguments : rhs = make_tuple(args, FALSE)

\* resolve_overload(lhs, args, notes) with no notes yet: result is the
\* optional it returns, node holds the notes
ResolveOverload ==
    /\ op = "init"
    /\ op' = "resolve_overload"
    /\ With(resolve_overload(lhs, rhs.types, <<>>),
            LAMBDA r : result' = r.type /\ node' = [kind |-> "notes", notes |-> r.notes])
    /\ UNCHANGED <<entries, lhs, rhs, yes, scopes, errors, steps>>

----------------------------------------------------------------------------
(* Generic parameters: the function types built from an annotation, from a *)
(* function definition and by apply_genparams                              *)

\* <generic_params>(<params>): <ret>; the generic parameters are NNameDecl,
\* the params are NTypeFunctionParam
NTypeFunction(generic_params, params, ret) ==
    [kind |-> "NTypeFunction", generic_params |-> generic_params,
     params |-> params, ret |-> ret, is_variadic |-> FALSE]

NTypeFunctionParam(name, type) == [name |-> name, type |-> type]

RECURSIVE NTypeFunction_generic_params(_, _, _, _, _)
\* NTypeFunction::check, the loop over generic_params (lines 96-103) in the
\* scope at position s: the id is reserved and never set
NTypeFunction_generic_params(generic_params, cx, s, genparams, nominals) ==
    IF generic_params = <<>>
    THEN [cx |-> cx, genparams |-> genparams, nominals |-> nominals]
    ELSE With(NNameDecl_check(Head(generic_params), cx, s),
              LAMBDA c1 :
                With([c1 EXCEPT
                        !.entries = reserve(@, Head(generic_params).name),
                        !.scopes = add_type(@, s, Head(generic_params).name,
                                     make_nominal(reserved_id(
                                       reserve(c1.entries,
                                               Head(generic_params).name))))],
                     LAMBDA c2 :
                       NTypeFunction_generic_params(
                         Tail(generic_params), c2, s,
                         Append(genparams,
                                NameType(Head(generic_params).name,
                                         NNameDecl_get_type(Head(generic_params),
                                                            c2.scopes, s))),
                         Append(nominals, reserved_id(c2.entries)))))

RECURSIVE NTypeFunctionParam_check(_, _, _)
\* NTypeFunctionParam::check over the params, in order
NTypeFunctionParam_check(params, cx, s) ==
    IF params = <<>> THEN cx
    ELSE NTypeFunctionParam_check(Tail(params),
                                  NType_check(Head(params).type, cx, s), s)

\* NTypeFunction::check in parent_scope s: what it leaves and its cached_type
NTypeFunction_check(t, cx, s) ==
    With(NTypeFunction_generic_params(
           t.generic_params, [cx EXCEPT !.scopes = Append(@, Scope(s))],
           Len(cx.scopes) + 1, <<>>, <<>>),
         LAMBDA g :
           With(NType_check(t.ret,
                            NTypeFunctionParam_check(t.params, g.cx,
                                                     Len(cx.scopes) + 1),
                            Len(cx.scopes) + 1),
                LAMBDA c1 :
                  [cx |-> [c1 EXCEPT !.scopes = SubSeq(@, 1, Len(cx.scopes))],
                   cached_type |->
                     make_function(
                       g.genparams, g.nominals,
                       [i \in 1..Len(t.params) |->
                          NType_type(t.params[i].type, c1.scopes,
                                     Len(cx.scopes) + 1)],
                       NType_type(t.ret, c1.scopes, Len(cx.scopes) + 1),
                       t.is_variadic)]))

\* local function <generic_params> <name>(<params>) end
NLocalFunction_generic(name, generic_params, params) ==
    [kind |-> "NLocalFunction", name |-> name,
     generic_params |-> generic_params, params |-> params]

RECURSIVE setup_scope(_, _, _, _)
\* FunctionBase::check, setup_scope, the loop over generic_params (lines
\* 977-983) in the scope at position s: the id is reserved and set to the
\* bound, read before the name of the parameter is added
setup_scope(generic_params, cx, s, nominals) ==
    IF generic_params = <<>> THEN [cx |-> cx, nominals |-> nominals]
    ELSE With(reserve(cx.entries, Head(generic_params).name),
              LAMBDA es :
                setup_scope(
                  Tail(generic_params),
                  [cx EXCEPT
                     !.entries = set(es, reserved_id(es),
                                     NNameDecl_get_type(Head(generic_params),
                                                        cx.scopes, s)),
                     !.scopes = add_type(@, s, Head(generic_params).name,
                                         make_nominal(reserved_id(es)))],
                  s, Append(nominals, reserved_id(es))))

RECURSIVE FunctionBase_genparams(_, _, _, _, _)
\* FunctionBase::get_type, the loop over generic_params (lines 1028-1032) in
\* the scope at position s
FunctionBase_genparams(generic_params, nominals, sc, s, genparams) ==
    IF generic_params = <<>> THEN [scopes |-> sc, genparams |-> genparams]
    ELSE With(add_type(sc, s, Head(generic_params).name,
                       make_nominal(Head(nominals))),
              LAMBDA sc1 :
                FunctionBase_genparams(
                  Tail(generic_params), Tail(nominals), sc1, s,
                  Append(genparams,
                         NameType(Head(generic_params).name,
                                  NNameDecl_get_type(Head(generic_params),
                                                     sc1, s)))))

\* FunctionBase::get_type(parent_scope, rettype) with generic parameters
FunctionBase_get_type_generic(n, nominals, sc, s, rettype) ==
    With(FunctionBase_genparams(n.generic_params, nominals,
                                Append(sc, Scope(s)), Len(sc) + 1, <<>>),
         LAMBDA g :
           make_function(g.genparams, nominals,
                         NFuncParams_get_types(n.params, g.scopes, Len(sc) + 1),
                         rettype, FALSE))

\* NLocalFunction::check of a generic function with an empty block and no
\* return annotation: what it leaves and the type of the function
NLocalFunction_check_generic(n, cx, s) ==
    With(setup_scope(n.generic_params,
                     [cx EXCEPT !.scopes = Append(@, Scope_of(s, n))],
                     Len(cx.scopes) + 1, <<>>),
         LAMBDA g :
           With(NFuncParams_check(n.params, g.cx, Len(cx.scopes) + 1),
                LAMBDA c1 :
                  With([c1 EXCEPT !.scopes = SubSeq(@, 1, Len(cx.scopes))],
                       LAMBDA c2 :
                         With(FunctionBase_get_type_generic(
                                n, g.nominals, c2.scopes, s, Void),
                              LAMBDA functype :
                                [functype |-> functype,
                                 cx |->
                                   IF get_type_of(c2.scopes, s, n.name) # nullptr
                                   THEN With(is_assignable(
                                               get_type_of(c2.scopes, s, n.name),
                                               functype, {}),
                                             LAMBDA r :
                                               IF r = Overflow
                                               THEN [c2 EXCEPT !.crashed = TRUE]
                                               ELSE IF r # Yes
                                               THEN emplace_back(
                                                      c2, CompileError(to_string(r)))
                                               ELSE c2)
                                   ELSE [c2 EXCEPT !.scopes =
                                           add_name(@, s, n.name, functype)]]))))

\* <T>, <T: number>, <T, U: T> and no generic parameters
GenericParamLists ==
    {<<>>, <<NNameDecl("T", NoNode)>>, <<NNameDecl("T", NTypeName("number"))>>,
     <<NNameDecl("T", NoNode), NNameDecl("U", NTypeName("T"))>>}

\* <generic_params>(a: T): T
TypeFunctions ==
    {NTypeFunction(g, <<NTypeFunctionParam("a", NTypeName("T"))>>, NTypeName("T")) :
        g \in GenericParamLists}

\* local function <generic_params> f(x: T) end, also named g
GenericFunctions ==
    {NLocalFunction_generic(name, g, <<NNameDecl("x", NTypeName("T"))>>) :
        name \in {"f", "g"}, g \in GenericParamLists}

\* the handler returned and built the function type t
Built(name, n, cx, t) ==
    IF cx.crashed THEN Crashed(n)
    ELSE Checked(name, n, cx) /\ result' = t /\ UNCHANGED <<lhs, rhs, yes>>

\* local x : <function type>: NLocalVar::check with an annotation
TypeFunction ==
    /\ Running
    /\ \E t \in TypeFunctions :
          With(NTypeFunction_check(
                 t,
                 IF get_type_of(scopes, Current, "x") # nullptr
                 THEN emplace_back(Here, CompileError_severity("WARNING",
                        <<"Local variable shadows name", "x">>))
                 ELSE Here,
                 Current),
               LAMBDA r :
                 Built("NTypeFunction", t,
                       [r.cx EXCEPT !.scopes =
                          add_name(@, Current, "x", r.cached_type)],
                       r.cached_type))

\* local function <generic_params> f(x: T) end
GenericFunction ==
    /\ Running
    /\ \E n \in GenericFunctions :
          With(NLocalFunction_check_generic(n, Here, Current),
               LAMBDA r : Built("NLocalFunction", n, r.cx, r.functype))

\* apply_genparams of one binding for one of the reserved ids to the
\* function type built last
Instantiate ==
    /\ Running
    /\ result.tag = "FUNCTION"
    /\ \E id \in 0..(Len(entries) - 1) : \E type \in {Number, String} :
          /\ ~entries[id + 1].narrowing
          /\ op' = "apply_genparams"
          /\ result' = apply_genparams(<<type>>, <<id>>, NoPackageType, result)
          /\ steps' = steps + 1
          /\ UNCHANGED <<entries, lhs, rhs, yes, node, scopes, errors>>

CheckNext ==
    \/ LocalVar
    \/ Assignment

CheckSpec == CheckInit /\ [][CheckNext]_vars

\* the check of a chunk of calls of the generic functions
CallNext ==
    \/ LocalVar
    \/ Call

CallSpec == CheckInit /\ [][CallNext]_vars

\* the check of a chunk that declares tables and assigns to their fields
TableNext ==
    \/ TableLocalVar
    \/ TableAssignment

TableSpec == CheckInit /\ [][TableNext]_vars

\* the statements of a chunk and of the modules it requires, in the order of
\* the source
BlockNext ==
    \/ LocalVar
    \/ Assignment
    \/ GlobalVar
    \/ ForNumeric
    \/ ForGeneric
    \/ LocalFunction
    \/ Return
    \/ Require
    \/ EndFor
    \/ EndFunction
    \/ EndModule

BlockSpec == CheckInit /\ [][BlockNext]_vars

\* one call of is_assignable on a pair of types over the two interfaces
CycleNext == IsAssignable

CycleSpec == CycleInit /\ [][CycleNext]_vars

\* chunks of local functions with bodies
FunctionNext == LocalFunctionBlock

FunctionSpec == CheckInit /\ [][FunctionNext]_vars

\* one call of check_param on a parameter type and an argument type
ParamNext ==
    \/ CheckParamGeneric
    \/ CheckParamPlain

ParamSpec == ParamInit /\ [][ParamNext]_vars

\* the function types with generic parameters
GenericNext ==
    \/ TypeFunction
    \/ GenericFunction
    \/ Instantiate

GenericSpec == CheckInit /\ [][GenericNext]_vars

\* assignments and method definitions on fixed and on narrowing entries
TargetNext ==
    \/ Interface
    \/ TargetLocalVar
    \/ TargetAssignment
    \/ SelfFunction

TargetSpec == CheckInit /\ [][TargetNext]_vars

\* the calls of products
OverloadNext == ResolveOverload

OverloadSpec == OverloadInit /\ [][OverloadNext]_vars

\* assignments of several values to several targets
ArityNext ==
    \/ ArityLocalVar
    \/ ArityAssignment

AritySpec == CheckInit /\ [][ArityNext]_vars

\* locals inferred from a literal and the assignments that widen them
NarrowNext ==
    \/ NarrowLocalVar
    \/ NarrowAssignment

NarrowSpec == CheckInit /\ [][NarrowNext]_vars

----------------------------------------------------------------------------
(* Properties *)

Assignable(l, r) == is_assignable(l, r, {}) = Yes

\* C1: assignability is reflexive: is_assignable(T, T) succeeds for every
\* type T, whatever its variant.
C1_Reflexive ==
    (op = "is_assignable" /\ lhs = rhs) => yes = Yes

NumberOrThreeOrNil ==
    {NTypeSum(NTypeSum(NTypeName("number"), NTypeLiteralNumber(NumberRep(TRUE, 3))),
              NTypeName("nil")),
     NTypeSum(NTypeName("number"),
              NTypeSum(NTypeLiteralNumber(NumberRep(TRUE, 3)), NTypeName("nil")))}

\* the members operator| has added to those of the left operand
Added == SubSeq(result.types,
                (IF lhs.tag = "SUM" THEN Len(lhs.types) ELSE 1) + 1,
                Len(result.types))

\* C2: union subsumption: when B is assignable to A, A | B is A itself; a
\* member of a Sum operand B is added exactly when the members collected
\* before it do not accept it; `number | 3 | nil` is Number | Nil for either
\* grouping.
C2_UnionSubsumption ==
    /\ (op = "operator|" /\ IsType(result) /\ Assignable(lhs, rhs))
          => result = lhs
    /\ (op = "operator|" /\ IsType(result) /\ ~Assignable(lhs, rhs)
            /\ rhs.tag = "SUM")
          => /\ \A k \in 1..Len(result.types) :
                  k > Len(result.types) - Len(Added)
                    => ~Assignable(SumType(SubSeq(result.types, 1, k - 1)),
                                   result.types[k])
             /\ \A m \in 1..Len(rhs.types) :
                  \/ \E k \in 1..Len(Added) : Added[k] = rhs.types[m]
                  \/ Assignable(result, rhs.types[m])
    /\ (op = "get_type" /\ node \in NumberOrThreeOrNil)
          => result = SumType(<<Number, Nil>>)

C2_Witness ==
    /\ op = "get_type"
    /\ node = NTypeSum(NTypeName("number"),
                       NTypeSum(NTypeLiteralNumber(NumberRep(TRUE, 3)),
                                NTypeName("nil")))
    /\ result = SumType(<<Number, Nil>>)

\* C3: union identity laws: T | Void = T, T | Any = Any and T | T = T for
\* every type T.
C3_UnionIdentity ==
    op = "operator|" =>
        /\ rhs = Void => result = lhs
        /\ rhs = make_any => result = make_any
        /\ rhs = lhs => result = lhs

RECURSIVE SumFlat(_)
\* no Sum is a direct member of a Sum, anywhere in t
SumFlat(t) ==
    CASE t.tag = "SUM" ->
           \A i \in 1..Len(t.types) :
               t.types[i].tag # "SUM" /\ SumFlat(t.types[i])
      [] t.tag \in {"TUPLE", "PRODUCT"} ->
           \A i \in 1..Len(t.types) : SumFlat(t.types[i])
      [] t.tag = "FUNCTION" ->
           /\ \A i \in 1..Len(t.params) : SumFlat(t.params[i])
           /\ \A i \in 1..Len(t.genparams) : SumFlat(t.genparams[i].type)
           /\ SumFlat(t.ret)
      [] t.tag = "TABLE" ->
           /\ \A i \in 1..Len(t.indexes) :
                 SumFlat(t.indexes[i].key) /\ SumFlat(t.indexes[i].val)
           /\ \A i \in 1..Len(t.fields) : SumFlat(t.fields[i].type)
      [] t.tag = "REQUIRE" -> SumFlat(t.basis)
      [] OTHER -> TRUE

\* C4: sum flatness: from operands in which no Sum directly contains a Sum,
\* every type produced by |, &, -, narrow_field, narrow_index and
\* apply_genparams has no Sum as a direct member of a Sum.
C4_SumFlatness ==
    (SumFlat(lhs) /\ SumFlat(rhs) /\ IsType(result)) => SumFlat(result)

\* C5: no Sum produced by operator| has two distinct members of which one
\* is assignable to the other, in either operand order.
C5_NoSubsumedMember ==
    (op = "operator|" /\ result.tag = "SUM") =>
        \A i \in 1..Len(result.types) : \A j \in 1..Len(result.types) :
            i # j => ~Assignable(result.types[i], result.types[j])

\* C6: difference sanity: T - T = Void for any type T.
C6_DifferenceSanity ==
    (op = "operator-" /\ lhs = rhs) => result = Void

IsNested(t) ==
    /\ t.tag = "TUPLE"
    /\ Len(t.types) = 2
    /\ t.types[2].tag = "TUPLE"
    /\ Len(t.types[2].types) = 2

\* Tuple[A,B,C] of the elements of a Tuple[A, Tuple[B,C]]
Spliced(t, v) ==
    Flat(t.types[1], t.types[2].types[1], t.types[2].types[2], v)

SelfAssignable(t) == \A i \in 1..Len(t.types) : Assignable(t.types[i], t.types[i])

OneParameter(t) ==
    t.tag = "FUNCTION" /\ t.genparams = <<>> /\ Len(t.params) = 1

\* C8: function variance: for non-generic one-parameter function types
\* L = (a) -> b and R = (a') -> b', L accepts R if and only if a' accepts a
\* and b accepts b'.
C8_FunctionVariance ==
    (op = "is_assignable" /\ OneParameter(lhs) /\ OneParameter(rhs))
        => (yes = Yes <=> /\ Assignable(rhs.params[1], lhs.params[1])
                          /\ Assignable(lhs.ret, rhs.ret))

C8_Witness ==
    /\ op = "is_assignable"
    /\ lhs = Fn(<<Three>>, SumType(<<Number, Nil>>), FALSE)
    /\ rhs = Fn(<<Number>>, Nil, FALSE)
    /\ yes = Yes

IsNumberLiteral(t) == t.tag = "LITERAL" /\ t.underlying_type = "NUMBER"

\* C9: literal versus primitive: Number accepts a number literal but a
\* number literal does not accept Number; a literal accepts a literal with
\* the same payload; an integer literal and a float literal of the same
\* numeric value accept each other in neither direction.
C9_LiteralVersusPrimitive ==
    op = "is_assignable" =>
        /\ (lhs = Number /\ IsNumberLiteral(rhs)) => yes = Yes
        /\ (IsNumberLiteral(lhs) /\ rhs = Number) => yes = No
        /\ (lhs.tag = "LITERAL" /\ rhs = lhs) => yes = Yes
        /\ (IsNumberLiteral(lhs) /\ IsNumberLiteral(rhs)
              /\ lhs.number.value = rhs.number.value
              /\ lhs.number.is_integer # rhs.number.is_integer) => yes = No

C9_Witness ==
    /\ op = "is_assignable"
    /\ lhs = Three
    /\ rhs = FloatLit(3)
    /\ yes = No

\* C10: Any is the top type in both directions: is_assignable(Any, T) and
\* is_assignable(T, Any) succeed for every type T, Void included.
C10_AnyIsTop ==
    op = "is_assignable" =>
        /\ lhs = make_any => yes = Yes
        /\ rhs = make_any => yes = Yes

\* the type bound to x in the innermost scope
BoundX == get_type_of(scopes, Current, "x")

\* C11: for `local x = 1; x = "hello"`, x is bound to a Deferred entry in
\* narrowing mode that holds the initial literal; the second assignment adds
\* no diagnostic and widens the entry's type to Number | String.
C11_LocalWidening ==
    [][(/\ op = "NLocalVar"
        /\ node = NLocalVar(NNameDecl("x", NoNode), One)
        /\ op' = "NAssignment"
        /\ node' = NAssignment(NIdent("x"), Hello))
       => /\ BoundX.tag = "DEFERRED"
          /\ is_narrowing(BoundX.id)
          /\ get_type(BoundX.id) = IntLit(1)
          /\ errors' = errors
          /\ get_type(BoundX.id)' = operator_or(Number, String)]_vars

\* the function type the prefix of the call in `node` is bound to
Callee == get_type_of(scopes, Current, node.prefix.name)

\* the types of the arguments of the call in `node`, a Deferred resolved
ArgTypes ==
    [k \in 1..Len(node.args) |->
        LET t == NExpr_get_type(node.args[k], scopes, Current)
        IN  IF t.tag = "DEFERRED" THEN reduce_deferred(t, NoPackageType) ELSE t]

\* the type the arguments give the generic parameter with nominal id: the
\* type of the first argument passed for a parameter declared as it, nullopt
\* if there is none
InferredFor(id) ==
    LET at == {k \in 1..Len(ArgTypes) : Callee.params[k] = make_nominal(id)}
    IN  IF at = {} THEN nullopt
        ELSE ArgTypes[CHOOSE k \in at : \A m \in at : k <= m]

\* the declared return type, a generic parameter replaced by the type
\* inferred for it and by Any when nothing was inferred
Substituted ==
    IF Callee.ret.tag = "NOMINAL"
       /\ \E g \in 1..Len(Callee.nominals) : Callee.nominals[g] = Callee.ret.defer.id
    THEN IF InferredFor(Callee.ret.defer.id) = nullopt THEN make_any
         ELSE InferredFor(Callee.ret.defer.id)
    ELSE Callee.ret

DistinctFields(t) ==
    t.tag = "TABLE" =>
       \A i, j \in 1..Len(t.fields) :
          t.fields[i].name = t.fields[j].name => i = j

\* the types held by the collection and the types bound in the scopes alive
CheckerTypes ==
    {entries[k].type : k \in 1..Len(entries)}
    \cup UNION {{scopes[s].names[n] : n \in DOMAIN scopes[s].names} :
                  s \in 1..Len(scopes)}

RECURSIVE Repeated(_, _)
\* the names that repeat an earlier one, in order; seen holds the earlier ones
Repeated(names, seen) ==
    IF names = <<>> THEN <<>>
    ELSE IF Head(names) \in seen
    THEN <<Head(names)>> \o Repeated(Tail(names), seen)
    ELSE Repeated(Tail(names), seen \cup {Head(names)})

\* the field names a declaration of a table writes, in order
DeclaredNames(n) ==
    IF n.name.type # NoNode
    THEN [i \in 1..Len(n.name.type.fields) |-> n.name.type.fields[i].name]
    ELSE [i \in 1..Len(n.expr.fields) |-> n.expr.fields[i].key]

\* the Errors the step has appended
NewErrors ==
    SelectSeq(SubSeq(errors'[1], Len(errors[1]) + 1, Len(errors'[1])),
              LAMBDA e : e.severity = "ERROR")

FieldNamesOf(t) == [i \in 1..Len(t.fields) |-> t.fields[i].name]

\* the table a narrowing assignment y.a = e works on
NarrowedEntry == get_type_of(scopes, Current, "y").id + 1

\* C13: every Table type the checker produces has pairwise distinct field
\* names; a table type annotation or table constructor that repeats a field
\* name yields one Error "Duplicate table key '<name>'" per repeated
\* occurrence and a single field whose type is the union of the occurrences'
\* types ({ a: number; a: string } gives one error and a : Number | String);
\* narrow_field never adds a second field with an existing name.
C13_DistinctFieldNames ==
    /\ [](\A t \in CheckerTypes : DistinctFields(t))
    /\ [][(op' = "NLocalVar" /\ node' \in TableLocalVars) =>
            /\ NewErrors =
                 [k \in 1..Len(Repeated(DeclaredNames(node'), {})) |->
                    CompileError(<<"Duplicate table key",
                                   Repeated(DeclaredNames(node'), {})[k]>>)]
            /\ node' = NLocalVar(NNameDecl("y", NTypeTable(
                          <<NFieldDecl("a", NTypeName("number")),
                            NFieldDecl("a", NTypeName("string"))>>)), NoNode)
                 => /\ Len(NewErrors) = 1
                    /\ get_type_of(scopes', Current', "y") =
                          make_table(<<>>, <<NameType("a",
                                               SumType(<<Number, String>>))>>)]_vars
    /\ [][(op' = "NAssignment" /\ node' \in TableAssignments) =>
            FieldNamesOf(entries'[NarrowedEntry].type) =
               IF \E i \in 1..Len(entries[NarrowedEntry].type.fields) :
                     entries[NarrowedEntry].type.fields[i].name = node'.var.name
               THEN FieldNamesOf(entries[NarrowedEntry].type)
               ELSE Append(FieldNamesOf(entries[NarrowedEntry].type),
                           node'.var.name)]_vars

\* { a: number; a: string } has been checked: one error, one field
C13_Witness ==
    /\ op = "NLocalVar"
    /\ node \in TableLocalVars
    /\ errors = << <<CompileError(<<"Duplicate table key", "a">>)>> >>
    /\ get_type_of(scopes, Current, "y") =
          make_table(<<>>, <<NameType("a", SumType(<<Number, String>>))>>)

\* the ids of the Deferred types bound to names in the scopes sc
DeferredIdsIn(sc) ==
    {sc[s].names[n].id : s \in {s \in 1..Len(sc) : \E n \in DOMAIN sc[s].names :
                                     sc[s].names[n].tag = "DEFERRED"},
                         n \in {n \in UNION {DOMAIN sc[s].names : s \in 1..Len(sc)} :
                                     \E s \in 1..Len(sc) :
                                         /\ n \in DOMAIN sc[s].names
                                         /\ sc[s].names[n].tag = "DEFERRED"}}

\* es extends the collection by one entry and keeps every entry in place
Extends(es) ==
    /\ reserved_id(es) = Len(entries)
    /\ Len(es) = Len(entries) + 1
    /\ SubSeq(es, 1, Len(entries)) = entries

\* es differs from the collection in the field f of entry i only
OnlyChanges(es, i, f) ==
    /\ Len(es) = Len(entries)
    /\ \A k \in 1..Len(entries) :
           \A g \in {"type", "name", "nominals", "narrowing"} :
               (k # i + 1 \/ g # f) => es[k][g] = entries[k][g]

\* C14: ids of the deferred type collection are stable and never reused.
\* On every collection the checker reaches, a reserve returns the previous
\* entry count and keeps every entry in place, and set / set_nominals change
\* one field of one entry; over every step of a check the entry count never
\* decreases, no entry changes its name, narrowing flag or nominals, at most
\* one existing entry changes its type, and every id newly bound in a scope
\* is an id that did not exist before the step.
C14_StableIds ==
    /\ [](/\ \A name \in {AtLine, "T"} :
                /\ Extends(reserve(entries, name))
                /\ Extends(reserve_narrow(entries, name))
                /\ Extends(reserve_type(entries, name, Number))
                /\ reserve_narrow(entries, name)[Len(entries) + 1].narrowing
                /\ ~reserve(entries, name)[Len(entries) + 1].narrowing
          /\ \A i \in 0..(Len(entries) - 1) :
                /\ \A t \in {Void, Number, IntLit(1)} :
                       /\ OnlyChanges(set(entries, i, t), i, "type")
                       /\ set(entries, i, t)[i + 1].type = t
                /\ \A nominals \in {<<>>, <<0>>} :
                       /\ OnlyChanges(set_nominals(entries, i, nominals), i, "nominals")
                       /\ set_nominals(entries, i, nominals)[i + 1].nominals = nominals)
    /\ [][/\ Len(entries') >= Len(entries)
          /\ \A k \in 1..Len(entries) :
                 /\ entries'[k].name = entries[k].name
                 /\ entries'[k].narrowing = entries[k].narrowing
                 /\ entries'[k].nominals = entries[k].nominals
          /\ Cardinality({k \in 1..Len(entries) :
                              entries'[k].type # entries[k].type}) <= 1
          /\ \A id \in DeferredIdsIn(scopes') \ DeferredIdsIn(scopes) :
                 id >= Len(entries) /\ id < Len(entries')]_vars

\* the check of a required module has reserved an entry in the collection
\* it shares with the caller and has rewritten the entry's type
C14_Witness ==
    /\ InModule
    /\ op = "NAssignment"
    /\ \E k \in (Len(InitEntries) + 1)..Len(entries) :
          entries[k].type.tag = "SUM" /\ entries[k].narrowing

\* the scopes of the chain of s that bind name (a parent has a smaller
\* position than its children)
Binders(s, name) == {k \in chain(scopes, s) : name \in DOMAIN scopes[k].names}

\* the greatest of a set of positions
Innermost(S) == CHOOSE k \in S : \A j \in S : j <= k

\* the root of the chain of s
RootOf(s) == CHOOSE k \in chain(scopes, s) : scopes[k].parent = 0

\* sc is the scope stack with name bound to type in scope s and nothing
\* else changed
BindsOnlyIn(sc, s, name, type) ==
    /\ Len(sc) = Len(scopes)
    /\ \A k \in 1..Len(scopes) : k # s => sc[k] = scopes[k]
    /\ \A f \in DOMAIN scopes[s] : f # "names" => sc[s][f] = scopes[s][f]
    /\ DOMAIN sc[s].names = DOMAIN scopes[s].names \cup {name}
    /\ sc[s].names[name] = type
    /\ \A n \in DOMAIN scopes[s].names : n # name => sc[s].names[n] = scopes[s].names[n]

\* C15: scope writes are local except global writes. On every scope stack a
\* check reaches, add_name changes only the name map of the scope it is
\* called on, add_global_name only the name map of the root of the chain,
\* and get_type_of is the binding of the nearest scope of the chain that
\* binds the name, or none; and a `local` statement leaves every scope but
\* the innermost as it was, a `global` statement every scope but the root.
C15_ScopeWrites ==
    /\ [](\A s \in 1..Len(scopes) : \A name \in Names \cup {"f"} :
            /\ \A type \in {Number, make_any} :
                  /\ BindsOnlyIn(add_name(scopes, s, name, type), s, name, type)
                  /\ BindsOnlyIn(add_global_name(scopes, s, name, type),
                                 RootOf(s), name, type)
            /\ get_type_of(scopes, s, name) =
                 IF Binders(s, name) = {} THEN nullptr
                 ELSE scopes[Innermost(Binders(s, name))].names[name])
    /\ [][/\ op' = "NLocalVar" =>
               /\ Len(scopes') = Len(scopes)
               /\ \A k \in 1..(Current - 1) : scopes'[k] = scopes[k]
          /\ op' = "NGlobalVar" =>
               /\ Len(scopes') = Len(scopes)
               /\ \A k \in 2..Current : scopes'[k] = scopes[k]
               /\ scopes'[1].types = scopes[1].types]_vars

\* a `global y` checked in the block of a for loop has bound y in the root
\* scope, while the loop's scope binds x over a local x of the chunk
C15_Witness ==
    /\ op = "NGlobalVar"
    /\ Current >= 4
    /\ "y" \in DOMAIN scopes[1].names
    /\ "x" \in DOMAIN scopes[2].names
    /\ "x" \in DOMAIN scopes[3].names
    /\ get_type_of(scopes, Current, "x") = scopes[3].names["x"]
    /\ scopes[3].names["x"] # scopes[2].names["x"]

\* the error vector of the check that is running
Top == Len(errors)

\* the diagnostics a step of the running check has appended
Appended ==
    IF Len(errors') = Len(errors)
    THEN SubSeq(errors'[Top], Len(errors[Top]) + 1, Len(errors'[Top]))
    ELSE <<>>

\* the diagnostic of a failed lookup of name
NotInScope(name) == CompileError(<<"Name", name, "is not in scope">>)

\* how many times the diagnostic e occurs in the sequence es
Occurrences(es, e) == Cardinality({i \in 1..Len(es) : es[i] = e})

\* C16: diagnostics accumulate and an undefined name cascades at most once.
\* Every step of a check keeps the diagnostics reported so far as a prefix of
\* its error vector (a module check starts a new vector and leaves the
\* caller's untouched); a step reports `not in scope` for a name at most
\* once, only if the name was not visible from the innermost scope, and
\* then binds the name to Any in that scope; a name that is visible is
\* never reported.
C16_ErrorsAccumulate ==
    [][/\ Len(errors') = Len(errors) =>
            /\ Len(errors'[Top]) >= Len(errors[Top])
            /\ SubSeq(errors'[Top], 1, Len(errors[Top])) = errors[Top]
            /\ \A k \in 1..(Top - 1) : errors'[k] = errors[k]
       /\ Len(errors') > Len(errors) => SubSeq(errors', 1, Top) = errors
       /\ Len(errors') < Len(errors) => errors' = SubSeq(errors, 1, Top - 1)
       /\ \A name \in Names :
            /\ Occurrences(Appended, NotInScope(name)) <= 1
            /\ Occurrences(Appended, NotInScope(name)) = 1 =>
                 /\ get_type_of(scopes, Current, name) = nullptr
                 /\ name \in DOMAIN scopes'[Current].names
                 /\ scopes'[Current].names[name] = make_any
            /\ get_type_of(scopes, Current, name) # nullptr =>
                 Occurrences(Appended, NotInScope(name)) = 0]_vars

\* `x = y` at the top of the chunk has reported both names, and the same
\* statement in the block of a for loop has reported nothing more
C16_Witness ==
    /\ op = "NAssignment"
    /\ node = NAssignment(NIdent("x"), NIdent("y"))
    /\ Current = 4
    /\ errors[1] = <<NotInScope("y"), NotInScope("x")>>
    /\ scopes[2].names["y"] = make_any
    /\ "y" \notin DOMAIN scopes[3].names \cup DOMAIN scopes[4].names

\* the names the declaration n brings into scope
DeclaredBy(n) ==
    CASE n.kind = "NLocalVar" -> {n.name.name}
      [] n.kind = "NForNumeric" -> {n.name}
      [] n.kind = "NForGeneric" -> {n.name.name}
      [] n.kind = "NLocalFunction" -> {n.params[i].name : i \in 1..Len(n.params)}

\* the diagnostics of a step that say that name is shadowed
ShadowDiagnostics(name) ==
    {i \in 1..Len(Appended) :
        /\ Appended[i].message \in
             {<<"Local variable shadows name", name>>,
              <<"For-loop variable shadows name", name>>,
              <<"Function parameter shadows name", name>>}}

\* C17: the declaration of a local variable, of the variable of a numeric or
\* generic for loop, or of a function parameter appends one diagnostic of
\* severity Warning for the name when the name is visible in scope, and none
\* when it is not.
C17_ShadowWarnings ==
    [][op' \in {"NLocalVar", "NForNumeric", "NForGeneric", "FunctionBase"} =>
         \A name \in DeclaredBy(node') :
            /\ \A i \in ShadowDiagnostics(name) : Appended[i].severity = "WARNING"
            /\ Cardinality(ShadowDiagnostics(name)) =
                 IF get_type_of(scopes, Current, name) # nullptr THEN 1 ELSE 0]_vars

\* no scope of the chain of s has left the mode of field f at Inherit: the
\* walk up the chain calls through the root's null parent
WalksPastRoot(s, f) == \A k \in chain(scopes, s) : scopes[k][f] = "INHERIT"

\* the statement n has a `...` expression
HasDots(n) == n.kind = "NLocalVar" /\ n.expr = NDots

\* C18: check() never ends in a crash or an exception: every handler
\* returns, and a `return` statement or a `...` expression is never checked
\* in a scope whose chain is in Inherit mode up to the root, where the walk
\* would go through the root's missing parent.
C18_NoCrash ==
    [][/\ op' # "crashed"
       /\ node'.kind = "NReturn" /\ steps' = steps + 1 =>
             ~WalksPastRoot(Current, "return_type_state")
       /\ HasDots(node') /\ steps' = steps + 1 =>
             ~WalksPastRoot(Current, "dots_state")]_vars

\* the position of the scope tlua_get_type created for the module
ModuleAt == CHOOSE k \in 1..Len(scopes) : scopes[k].owner.kind = "tlua_get_type"

\* C19: resolving a module through the require resolver never mutates the
\* scopes of the parent session. From the call of tlua_get_type to its
\* return, no step changes the name map or the type-alias map of the root
\* scope or of any other scope the caller has alive.
C19_RequireIsolated ==
    [][/\ op' = "tlua_get_type" => SubSeq(scopes', 1, Len(scopes)) = scopes
       /\ InModule =>
            \A k \in 1..(ModuleAt - 1) :
               /\ scopes'[k].names = scopes[k].names
               /\ scopes'[k].types = scopes[k].types]_vars

RECURSIVE MemberWise(_, _)
\* (((a - b1) - b2) ... - bn) for types = <<b1, ..., bn>>
MemberWise(a, types) ==
    IF types = <<>> \/ ~IsType(a) THEN a
    ELSE MemberWise(operator_minus(a, Head(types)), Tail(types))

\* C20: the difference by a Sum terminates and is member-wise: for a
\* minuend that is not a Sum and a subtrahend B = b1 | ... | bn, operator-
\* returns a type, equal to (((A - b1) - b2) ... - bn).
C20_DifferenceBySum ==
    (op = "operator-" /\ lhs.tag # "SUM" /\ rhs.tag = "SUM") =>
        /\ IsType(result)
        /\ result = MemberWise(lhs, rhs.types)

\* C21: assignability over recursive types is cycle-safe: is_assignable
\* returns success or failure for every pair of types, also for two distinct
\* Deferred ids whose entries refer back to themselves.
C21_CycleSafe == op = "is_assignable" => yes \in {Yes, No}

\* the `return` statements of a block that are not inside a nested function
DirectReturns(block) == SelectSeq(block, LAMBDA child : child.kind = "NReturn")

RECURSIVE UnionInOrder(_, _)
\* acc | t1 | ... | tn for the expression types of returns = <<r1, ..., rn>>
UnionInOrder(acc, returns) ==
    IF returns = <<>> THEN acc
    ELSE UnionInOrder(
           operator_or(acc, NExpr_get_type(Head(returns).expr, scopes, Current)),
           Tail(returns))

\* the return type deduced from the `return` statements of a block; a block
\* without any leaves the default-constructed Type
Deduced(block) ==
    IF DirectReturns(block) = <<>> THEN Void
    ELSE UnionInOrder(
           NExpr_get_type(Head(DirectReturns(block)).expr, scopes, Current),
           Tail(DirectReturns(block)))

\* C22: a local function without return annotation, declared under a name
\* that is not in scope, is bound to a Function type whose return type is
\* the union, in statement order, of the expression types of the `return`
\* statements of its body that are not inside a nested function; the
\* `return` statements of nested functions, with a deduced or a declared
\* return type, do not contribute.
C22_DeducedReturn ==
    [][(/\ op' = "NLocalFunction"
        /\ "block" \in DOMAIN node'
        /\ get_type_of(scopes, Current, node'.name) = nullptr)
       => /\ Len(scopes') = Len(scopes)
          /\ get_type_of(scopes', Current, node'.name).tag = "FUNCTION"
          /\ get_type_of(scopes', Current, node'.name).ret = Deduced(node'.block)]_vars

\* f returns 1 and then "hello"; y declares a nested function that returns
\* "hello" and then returns 1
C22_Witness ==
    /\ op = "NLocalFunction"
    /\ node.name = "y"
    /\ node.block = <<NLocalFunction_block("g", <<>>, NoNode, <<NReturn(Hello)>>),
                      NReturn(One)>>
    /\ get_type_of(scopes, Current, "y").ret = IntLit(1)
    /\ get_type_of(scopes, Current, "f").tag = "FUNCTION"
    /\ get_type_of(scopes, Current, "f").ret =
         SumType(<<IntLit(1), make_literal_string("hello")>>)

\* the argument as check_param sees it: a Deferred argument is reduced first
Argument == IF rhs.tag = "DEFERRED" THEN reduce_deferred(rhs, NoPackageType) ELSE rhs

\* a call of check_param whose parameter is the generic parameter T itself;
\* result holds the binding of T before the call, node.inferred after it
OnGenericParam ==
    /\ op = "check_param"
    /\ lhs = NominalT
    /\ node.nominals = <<NominalId>>

C24_GenericBookkeeping ==
    result.tag = "FUNCTION" =>
        /\ Len(result.nominals) = Len(result.genparams)
        /\ \A i \in 1..Len(result.nominals) :
              entries[result.nominals[i] + 1].type = result.genparams[i].type

\* the entry of id is fixed: it was reserved without narrowing mode
Fixed(id) == ~entries[id + 1].narrowing

\* C25: an assignment to an identifier, a field or a subscript and a method
\* definition leave the type of every fixed entry as it was, and no step
\* changes the narrowing flag of an entry
C25_FixedEntries ==
    [][\A id \in 0..(Len(entries) - 1) :
          /\ Len(entries') > id
          /\ entries'[id + 1].narrowing = entries[id + 1].narrowing
          /\ (Fixed(id) /\ op' \in {"NAssignment", "NSelfFunction"}
                => entries'[id + 1].type = entries[id + 1].type)]_vars

\* a field of a local of the interface type P was assigned "hello", which
\* the entry of P (still { a: number }) rejects
C25_Witness ==
    /\ op = "NAssignment"
    /\ node.vars[1].kind = "NTableAccess"
    /\ rhs = make_literal_string("hello")
    /\ yes = No
    /\ \E id \in 0..(Len(entries) - 1) :
          /\ get_type_of(scopes, Current, "y") = make_deferred(id, <<>>)
          /\ Fixed(id)
          /\ entries[id + 1].type = make_table(<<>>, <<NameType("a", Number)>>)

\* what component i of the product called returns on its own
Alone(i) == resolve_overload(lhs.types[i], rhs.types, <<>>)

\* the components that accept the arguments
Accepting == {i \in 1..Len(lhs.types) : Alone(i).type # nullopt}

RECURSIVE NotesOf(_)
\* the notes of the components 1..k, in component order
NotesOf(k) == IF k = 0 THEN <<>> ELSE NotesOf(k - 1) \o Alone(k).notes

\* C26: a call of a Product returns what its first accepting component
\* returns, with the notes of that component only; it fails exactly when
\* every component fails, with the notes of all components in their order
C26_FirstSuccessWins ==
    op = "resolve_overload" =>
        IF Accepting = {}
        THEN result = nullopt /\ node.notes = NotesOf(Len(lhs.types))
        ELSE With(CHOOSE i \in Accepting : \A j \in Accepting : i <= j,
                  LAMBDA first :
                    /\ result = Alone(first).type
                    /\ result # nullopt
                    /\ node.notes = Alone(first).notes)

\* a call with a string as the first argument: the first component failed
\* on parameter 0, a different second component accepted and returned
\* string, and nothing is noted
C26_Witness ==
    /\ op = "resolve_overload"
    /\ Len(lhs.types) >= 2
    /\ Alone(1).notes = << <<"Invalid parameter", 0>> >>
    /\ 2 \in Accepting
    /\ lhs.types[1] # lhs.types[2]
    /\ result = String
    /\ node.notes = <<>>

\* the types of the targets and of the values of the assignment checked
\* last, position by position
TargetTypes == IF Len(node.vars) = 1 THEN <<lhs>> ELSE lhs.types

ValueTypes == IF Len(node.exprs) = 1 THEN <<rhs>> ELSE rhs.types

\* the Tuple rule without variadic tuples: the common positions are
\* assignable, extra targets accept nil, extra values are forbidden
TupleRule(l, r) ==
    /\ Len(r) <= Len(l)
    /\ \A i \in 1..Len(r) : Assignable(l[i], r[i])
    /\ \A i \in (Len(r) + 1)..Len(l) : Assignable(l[i], Nil)

\* C27: an assignment of m values to n targets is accepted exactly when the
\* Tuple rule accepts it, whatever n and m are
C27_AssignmentArity ==
    op = "NAssignment" => (yes = Yes <=> TupleRule(TargetTypes, ValueTypes))

\* the statement checked last is an assignment to a name bound to the
\* Deferred entry id, which is in narrowing mode
Widens(id) ==
    /\ node.kind = "NAssignment"
    /\ get_type_of(scopes, Current, node.var.name) = make_deferred(id, <<>>)
    /\ is_narrowing(id)

\* C28: an assignment to a local whose entry is in narrowing mode returns
\* without an assignability error, the value assigned is assignable to the
\* type of the entry afterwards, the name resolves to that type, and the
\* value the statement before assigned to a local in narrowing mode is
\* still assignable to the type of that local's entry
C28_NarrowingMonotone ==
    [][\A id \in 0..(Len(entries) - 1) :
          /\ (op' \in {"NAssignment", "crashed"} /\ Widens(id)')
             => /\ op' = "NAssignment"
                /\ yes' = Yes
                /\ Assignable(get_type(id), rhs)'
                /\ reduce_deferred(lhs, NoPackageType)' = get_type(id)'
          /\ (op = "NAssignment" /\ Widens(id) /\ op' = "NAssignment")
             => \A value \in {rhs} : Assignable(get_type(id), value)']_vars

\* C29: a call of check_param that returns failure leaves the inferred
\* bindings as they were before the call
C29_FailureLeavesInferred ==
    (op = "check_param" /\ yes = No /\ node.genparams # <<>>)
        => node.inferred = <<result>>

\* C30: for a function without generic parameters check_param(param, arg)
\* succeeds exactly when is_assignable(param, arg) succeeds
C30_ParamIsAssignable ==
    (op = "check_param" /\ node.genparams = <<>>)
        => (yes = Yes <=> is_assignable(lhs, rhs, {}) = Yes)

============================================================================
